---- MODULE Spec2Model ----
(***************************************************************************)
(* A model of the async-smtp client: the transparency codec                *)
(* (src/codec.rs), the data phase of SmtpStream (src/stream.rs), the       *)
(* dialogue of SmtpTransport (src/smtp_client.rs: new, try_login, auth,    *)
(* starttls, send, quit) and the pooled transport (src/smtp/transport.rs:  *)
(* connect with try_tls, send, close and the try_smtp! panic handling).    *)
(***************************************************************************)
EXTENDS Integers, Sequences, FiniteSets, TLC

(***************************************************************************)
(* Bytes.  The codec distinguishes CR, LF and '.', every other byte is     *)
(* treated alike, so one representative ('t') stands for them.             *)
(***************************************************************************)
CR == 13
LF == 10
DOT == 46
OtherByte == 116

Bytes == {CR, LF, DOT, OtherByte}

\* Longest message body explored.
MaxBody == 4

RECURSIVE SeqsUpTo(_, _)
SeqsUpTo(S, n) ==
    IF n = 0 THEN {<<>>}
    ELSE LET shorter == SeqsUpTo(S, n - 1)
         IN  shorter \cup {Append(s, x) : s \in {t \in shorter : Len(t) = n - 1}, x \in S}

Bodies == SeqsUpTo(Bytes, MaxBody)

\* b"\r\n.\r\n"
Terminator == <<CR, LF, DOT, CR, LF>>

VARIABLES
    \* ---- codec / data phase ----
    body,       \* the message body handed to the codec
    pos,        \* number of body bytes already passed to encode (successive calls)
    codec,      \* ClientCodec.escape_count of the codec fed chunk by chunk
    out,        \* bytes that codec has written so far
    cuts,       \* positions of the body at which one encode call ended and the next began
    wire,       \* bytes SmtpStream::message wrote to the stream for this body
    mstate,     \* "idle" before SmtpStream::message wrote the body, "sent" after
    \* ---- SmtpTransport (src/smtp_client.rs) over its stream ----
    server_info,    \* SmtpTransport.server_info.features
    client_info,    \* SmtpTransport.client_info: [pipelining, smtp_utf8]
    sent,           \* the commands written to the stream so far, in order
    nread,          \* number of replies read from the stream so far
    op,             \* the operation in progress: "none", "send", "auth", "quit"
    pc,             \* the statement of the operation that runs next
    to,             \* number of recipients of the envelope being sent
    step,           \* loop counter: recipients handled / replies drained
    sent_commands,  \* send's local sent_commands
    challenges,     \* auth's local challenges
    response,       \* code of the reply read last (0: none yet)
    result,         \* what the last finished operation returned
    pipelined,      \* send's local pipelining
    ops,            \* number of operations started on this transport
    base,           \* Len(sent) when the current operation started
    nread0,         \* nread when the current operation started
    failed,         \* TRUE once an operation of this transport returned an error
    \* ---- the pooled SmtpTransport (src/smtp/transport.rs) ----
    panic,          \* SmtpTransport.state.panic
    stream,         \* InnerClient.stream: "open" (Some) or "none" (None)
    has_info,       \* SmtpTransport.server_info.is_some()
    pending,        \* the error try_smtp! holds while it closes the connection
    timed_out,      \* number (ops) of the operation in which a with_timeout deadline expired last; 0: none
    \* ---- arguments, locals and ownership ----
    accepted_mechanisms,    \* try_login's argument, in the caller's order
    mail_options,           \* send's local mail_options
    ehlo_response,          \* what the reply read for EHLO carried: [named, features]
    engine,     \* the SmtpTransport value and its stream: "unopened", "held" (the
                \* transport owns the stream), "returned" (the raw stream was handed
                \* to the caller), "dropped" (transport and stream were dropped)
    \* ---- ServerInfo::from_response (src/smtp/extension.rs) ----
    message,    \* Response.message of the EHLO reply: its lines, each split on whitespace
    parsed,     \* what from_response returned for it
    \* ---- EmailAddress and the commands built from it (src/types.rs, src/commands.rs) ----
    address,        \* the string given to EmailAddress::new, as its characters' code points
    email_address,  \* what EmailAddress::new returned for it
    command,        \* the text of the MAIL or RCPT command formatted with it (<<>>: none yet)
    \* ---- Envelope (src/types.rs) ----
    recipients,     \* the list given to Envelope::new as `to`
    envelope,       \* what Envelope::new returned for it
    \* ---- StubTransport (src/stub/mod.rs) under Transport::send (src/lib.rs) ----
    given,          \* the response StubTransport::new was given
    responses,      \* StubTransport.responses
    email,          \* the message of the email being sent
    copied,         \* number of its bytes copied into the StubStream
    stub_stream,    \* StubStream.response of the stream of the send in progress
    stub_pc,        \* "idle", "copy" (the stream was returned), "closed"
    stub_sends,     \* number of sends started on the transport
    stub_result,    \* what the last finished send returned
    \* ---- SmtpStream::read_response (src/stream.rs) ----
    incoming,       \* the lines the server sends before it closes the connection
    consumed,       \* number of them read_line has taken from the BufReader so far
    started,        \* consumed when the current read_response began: its buffer is
                    \* the lines started+1 .. consumed
    reply,          \* what the last finished read_response returned
    read_pc,        \* "idle" or "loop"
    reads,          \* number of read_response calls begun
    \* ---- Potential and Lease (src/smtp/potential.rs) ----
    potential,      \* the owner's Potential: Present(item), Eventual or Gone
    lease,          \* the Lease that is out, if any, and the item in it
    channel,        \* the oneshot channel between the Lease and the Potential
    owner,          \* "idle", or the call of the owner that awaits the receiver
    yielded,        \* what the owner's last finished call returned
    \* ---- the pooled SmtpTransport with its Potential (src/smtp/transport.rs) ----
    transport,      \* SmtpTransport: state.panic, server_info, client_info
    inner,          \* the InnerClient: its stream, a NetworkStream variant or "none"
    task,           \* the function of the transport that runs, and where it is
    network,        \* what was written on the client's stream since it was connected
    outcome,        \* what the last function of the transport returned
    calls,          \* number of calls made on the transport
    smtp_stream,    \* the SmtpStream handed out by send_stream ("none": none alive)
    poll,           \* the poll in progress on it, and what the last one returned
    accepts         \* the buffers poll_write reported as written, in order

codecVars == <<body, pos, codec, out, cuts, wire, mstate>>

dialogueVars == <<server_info, client_info, sent, nread, op, pc, to, step, sent_commands,
                  challenges, response, result, pipelined, ops, base, nread0, failed>>

transportVars == <<panic, stream, has_info, pending, timed_out>>

sessionVars == <<accepted_mechanisms, mail_options, ehlo_response, engine>>

ehloVars == <<message, parsed>>

addressVars == <<address, email_address, command>>

envelopeVars == <<recipients, envelope>>

stubVars == <<given, responses, email, copied, stub_stream, stub_pc, stub_sends, stub_result>>

readVars == <<incoming, consumed, started, reply, read_pc, reads>>

potentialVars == <<potential, lease, channel, owner, yielded>>

pooledVars == <<transport, inner, task, network, outcome, calls, smtp_stream, poll, accepts>>

libraryVars == <<ehloVars, addressVars, envelopeVars, stubVars, readVars, potentialVars,
                 pooledVars>>

engineVars == <<codecVars, dialogueVars, transportVars, sessionVars>>

otherVars == <<engineVars, ehloVars, addressVars, envelopeVars, stubVars, readVars>>

vars == <<codecVars, dialogueVars, transportVars, sessionVars, libraryVars>>

(***************************************************************************)
(* ClientCodec (src/codec.rs)                                              *)
(***************************************************************************)

\* ClientCodec::new() is ClientCodec::default(): escape_count: u8 defaults to 0.
ClientCodecNew == 0

\* The match on self.escape_count for one byte (codec.rs:40-53).  3 means
\* "a dot at the start of a line was seen".
EscapeStep(ec, byte) ==
    CASE ec = 0 -> IF byte = CR THEN 1 ELSE 0
      [] ec = 1 -> IF byte = LF THEN 2 ELSE 0
      [] ec = 2 -> IF byte = DOT THEN 3 ELSE IF byte = CR THEN 1 ELSE 0

\* The frame.len() == 0 arm: the end-of-body bytes by escape_count (codec.rs:27-36).
EndOfBody(ec) ==
    CASE ec = 0 -> <<CR, LF, DOT, CR, LF>>
      [] ec = 1 -> <<LF, DOT, CR, LF>>
      [] ec = 2 -> <<DOT, CR, LF>>

\* The for loop over the frame (codec.rs:38-62); step and start are 1-based here.
\* When the state reaches 3 the bytes frame[start..step) are written, then a '.',
\* and start moves to step; after the loop frame[start..] is written.
RECURSIVE EncodeLoop(_, _, _, _, _)
EncodeLoop(ec, frame, idx, start, buf) ==
    IF idx > Len(frame)
    THEN [escape_count |-> ec, buf |-> buf \o SubSeq(frame, start, Len(frame))]
    ELSE LET e == EscapeStep(ec, frame[idx])
         IN  IF e = 3
             THEN EncodeLoop(0, frame, idx + 1, idx,
                             buf \o SubSeq(frame, start, idx - 1) \o <<DOT>>)
             ELSE EncodeLoop(e, frame, idx + 1, start, buf)

\* A codec that forgets its state between two calls.
encodeForgetful(ec, frame) ==
    IF Len(frame) = 0
    THEN [escape_count |-> 0, buf |-> EndOfBody(ec)]
    ELSE EncodeLoop(0, frame, 1, 1, <<>>)

\* ClientCodec::encode(&mut self, frame, buf): the new escape_count and the bytes
\* written to buf.
encode(ec, frame) ==
    IF Len(frame) = 0
    THEN [escape_count |-> 0, buf |-> EndOfBody(ec)]
    ELSE EncodeLoop(ec, frame, 1, 1, <<>>)

(***************************************************************************)
(* The ClientCodec of the pooled transport (src/smtp/client/codec.rs) as   *)
(* its SmtpStream uses it (src/smtp/transport.rs:368-535): every buffer    *)
(* written to the stream is encoded by the stream's codec, and closing     *)
(* the stream encodes the empty frame.                                     *)
(***************************************************************************)

\* The match on self.escape_count for one byte (smtp/client/codec.rs:39-44).
LegacyEscapeStep(ec, byte) ==
    CASE ec = 0 -> IF byte = CR THEN 1 ELSE 0
      [] ec = 1 -> IF byte = LF THEN 2 ELSE 0
      [] ec = 2 -> IF byte = DOT THEN 3 ELSE 0

\* The for loop over the frame (smtp/client/codec.rs:37-52).
RECURSIVE LegacyEncodeLoop(_, _, _, _, _)
LegacyEncodeLoop(ec, frame, idx, start, buf) ==
    IF idx > Len(frame)
    THEN [escape_count |-> ec, buf |-> buf \o SubSeq(frame, start, Len(frame))]
    ELSE LET e == LegacyEscapeStep(ec, frame[idx])
         IN  IF e = 3
             THEN LegacyEncodeLoop(0, frame, idx + 1, idx,
                                   buf \o SubSeq(frame, start, idx - 1) \o <<DOT>>)
             ELSE LegacyEncodeLoop(e, frame, idx + 1, start, buf)

\* ClientCodec::encode of smtp/client/codec.rs (24-56).
LegacyEncode(ec, frame) ==
    IF Len(frame) = 0
    THEN [escape_count |-> 0, buf |-> EndOfBody(ec)]
    ELSE LegacyEncodeLoop(ec, frame, 1, 1, <<>>)

\* The bodies written through the pooled transport's stream here: those of
\* Bodies, and those of Bodies after an empty first line.
LegacyBodies == Bodies \cup {<<CR, LF>> \o b : b \in Bodies}

\* poll_write: the next k >= 1 bytes of the body are encoded (transport.rs:
\* 425-460).
StreamEncode ==
    /\ mstate = "idle"
    /\ pos < Len(body)
    /\ \E k \in 1..(Len(body) - pos) :
         LET r == LegacyEncode(codec, SubSeq(body, pos + 1, pos + k))
         IN  /\ codec' = r.escape_count
             /\ out' = out \o r.buf
             /\ pos' = pos + k
             /\ cuts' = IF pos = 0 THEN cuts ELSE cuts \cup {pos}
    /\ UNCHANGED <<body, wire, mstate>>
    /\ UNCHANGED <<dialogueVars, transportVars, sessionVars, libraryVars>>

\* poll_close: the final dot, codec.encode(&[][..]) (transport.rs:490-494).
StreamFinalDot ==
    /\ mstate = "idle"
    /\ pos = Len(body)
    /\ wire' = out \o LegacyEncode(codec, <<>>).buf
    /\ codec' = LegacyEncode(codec, <<>>).escape_count
    /\ mstate' = "sent"
    /\ UNCHANGED <<body, pos, out, cuts>>
    /\ UNCHANGED <<dialogueVars, transportVars, sessionVars, libraryVars>>

(***************************************************************************)
(* The data phase of SmtpStream::message (src/stream.rs:106-124): a new    *)
(* codec encodes the whole body, then b"\r\n.\r\n" is written.             *)
(***************************************************************************)
MessageBytes(b) == encode(ClientCodecNew, b).buf \o Terminator

\* One more encode call on the same codec, with the next k >= 1 bytes of the body.
EncodeChunk ==
    /\ pos < Len(body)
    /\ \E k \in 1..(Len(body) - pos) :
         LET r == encode(codec, SubSeq(body, pos + 1, pos + k))
         IN  /\ codec' = r.escape_count
             /\ out' = out \o r.buf
             /\ pos' = pos + k
             /\ cuts' = IF pos = 0 THEN cuts ELSE cuts \cup {pos}
    /\ UNCHANGED <<body, wire, mstate>>
    /\ UNCHANGED <<dialogueVars, transportVars, sessionVars, libraryVars>>

\* SmtpStream::message writes the body.
Message ==
    /\ mstate = "idle"
    /\ wire' = MessageBytes(body)
    /\ mstate' = "sent"
    /\ UNCHANGED <<body, pos, codec, out, cuts>>
    /\ UNCHANGED <<dialogueVars, transportVars, sessionVars, libraryVars>>

(***************************************************************************)
(* Replies.  The engine looks at a reply's severity (first digit) and, in  *)
(* auth, at the code 334; one code stands for each case it distinguishes.  *)
(***************************************************************************)
Severity(code) == code \div 100

\* Response::is_positive: the severity is PositiveCompletion or PositiveIntermediate.
IsPositive(code) == Severity(code) \in {2, 3}

\* Response::has_code(n): all three digits agree.
HasCode(code, n) == code = n

\* A conversion that takes a 5xx reply for a transient failure.
ErrorFromResponseSwapped(code) ==
    CASE Severity(code) = 4 -> "Transient"
      [] Severity(code) = 5 -> "Transient"
      [] OTHER -> "Client"

\* impl From<Response> for Error (src/error.rs:70-78).
ErrorFromResponse(code) ==
    CASE Severity(code) = 4 -> "Transient"
      [] Severity(code) = 5 -> "Permanent"
      [] OTHER -> "Client"

\* What read_response returns for a parsed reply (src/stream.rs:85-91).
ReadResponse(code) ==
    IF IsPositive(code)
    THEN [kind |-> "Ok", code |-> code]
    ELSE [kind |-> ErrorFromResponse(code), code |-> code]

\* The replies the server may give to a command of the given operation.
ServerReplies(o) ==
    IF o \in {"auth", "try_login"} THEN {235, 334, 535} ELSE {250, 354, 451, 550, 150}

NoResult == [kind |-> "none", code |-> 0]

\* No EHLO reply was read yet.
NoEhlo == [named |-> FALSE, features |-> {}]

Cmd(name, arg) == [cmd |-> name, arg |-> arg]

\* MailCommand::new(from, parameters) and RcptCommand::new(to, parameters)
\* (src/commands.rs:43-94): Display writes every parameter after the address.
\* arg is the recipient's position in the envelope.
MailCommand(parameters) == [cmd |-> "MAIL", arg |-> 0, parameters |-> parameters]

RcptCommand(recipient, parameters) ==
    [cmd |-> "RCPT", arg |-> recipient, parameters |-> parameters]

Mechanisms == {"PLAIN", "LOGIN", "XOAUTH2"}

\* let mut challenges = 10 (src/smtp_client.rs:172)
MaxChallenges == 10

\* Most recipients in an envelope, most operations (send, quit) started on one
\* transport, most auth exchanges started on one transport.
MaxRcpt == 2
MaxOps == 2
MaxAuths == 1

(***************************************************************************)
(* SmtpTransport (src/smtp_client.rs).  The server answers every command   *)
(* with one reply, in order: the k-th reply read from the stream answers   *)
(* the k-th command written to it.                                         *)
(***************************************************************************)
\* ServerInfo::supports_feature (src/smtp/extension.rs:204-206).
supports_feature(keyword) == keyword \in server_info

\* A choice of parameters that adds SMTPUTF8 whenever the server advertises it.
MailOptionsUtf8Always(info, smtp_utf8) ==
    (IF "8BITMIME" \in info THEN {"BODY=8BITMIME"} ELSE {})
        \cup (IF "SMTPUTF8" \in info THEN {"SMTPUTF8"} ELSE {})

\* send's mail_options (src/smtp_client.rs:200-208, src/smtp/transport.rs:321-329)
\* for the features info and the client's smtp_utf8.
MailOptions(info, smtp_utf8) ==
    (IF "8BITMIME" \in info THEN {"BODY=8BITMIME"} ELSE {})
        \cup (IF "SMTPUTF8" \in info /\ smtp_utf8 THEN {"SMTPUTF8"} ELSE {})

\* An operation starts: what is remembered of the stream at that moment.
Begin(o, limit) ==
    /\ pc = "idle"
    /\ engine = "held"
    /\ ops < limit
    /\ op' = o
    /\ ops' = ops + 1
    /\ base' = Len(sent)
    /\ nread0' = nread
    /\ result' = NoResult

\* The operation returns r to the caller.
Return(r) ==
    /\ pc' = "idle"
    /\ result' = r
    /\ failed' = (failed \/ r.kind # "Ok")

\* SmtpStream::send_command: the command is written and flushed.
send_command(c) == sent' = Append(sent, c)

\* A reply is waiting in the stream: the server has answered every command written.
ReplyAvailable == nread < Len(sent)

\* send, up to the choice of the branch (src/smtp_client.rs:198-213).
SendBegin ==
    /\ Begin("send", MaxOps)
    /\ \E n \in 1..MaxRcpt : to' = n
    /\ pipelined' = (supports_feature("PIPELINING") /\ client_info.pipelining)
    /\ pc' = "mail"
    /\ step' = 0
    /\ sent_commands' = 0
    /\ mail_options' = MailOptions(server_info, client_info.smtp_utf8)
    /\ UNCHANGED <<server_info, client_info, sent, nread, challenges, response, failed>>
    /\ UNCHANGED <<codecVars, libraryVars, transportVars, accepted_mechanisms, ehlo_response, engine>>

\* Pipelined: MAIL is written without waiting (214-220).
PipelinedMail ==
    /\ op = "send" /\ pc = "mail" /\ pipelined
    /\ send_command(MailCommand(mail_options))
    /\ sent_commands' = 1
    /\ pc' = "rcpt"
    /\ UNCHANGED <<server_info, client_info, nread, op, to, step, challenges, response,
                   result, pipelined, ops, base, nread0, failed>>
    /\ UNCHANGED <<codecVars, libraryVars, transportVars, sessionVars>>

\* Pipelined: one RCPT per recipient, in the envelope's order (223-228).
PipelinedRcpt ==
    /\ op = "send" /\ pc = "rcpt" /\ pipelined
    /\ step < to
    /\ send_command(RcptCommand(step + 1, {}))
    /\ sent_commands' = sent_commands + 1
    /\ step' = step + 1
    /\ UNCHANGED <<server_info, client_info, nread, op, pc, to, challenges, response,
                   result, pipelined, ops, base, nread0, failed>>
    /\ UNCHANGED <<codecVars, libraryVars, transportVars, sessionVars>>

\* Pipelined: DATA is written (231-232).
PipelinedData ==
    /\ op = "send" /\ pc = "rcpt" /\ pipelined
    /\ step = to
    /\ send_command(Cmd("DATA", 0))
    /\ sent_commands' = sent_commands + 1
    /\ step' = 0
    /\ pc' = "drain"
    /\ UNCHANGED <<server_info, client_info, nread, op, to, challenges, response,
                   result, pipelined, ops, base, nread0, failed>>
    /\ UNCHANGED <<codecVars, libraryVars, transportVars, sessionVars>>

\* Pipelined: for _ in 0..sent_commands { read_response().await?; } (234-236).
\* A non-positive reply makes send return at once.
PipelinedRead ==
    /\ op = "send" /\ pc = "drain"
    /\ step < sent_commands
    /\ ReplyAvailable
    /\ \E code \in ServerReplies(op) :
         /\ nread' = nread + 1
         /\ response' = code
         /\ IF ReadResponse(code).kind = "Ok"
            THEN /\ step' = step + 1
                 /\ pc' = IF step + 1 = sent_commands THEN "message" ELSE "drain"
                 /\ UNCHANGED <<result, failed>>
            ELSE /\ Return(ReadResponse(code))
                 /\ UNCHANGED step
    /\ UNCHANGED <<server_info, client_info, sent, op, to, sent_commands, challenges,
                   pipelined, ops, base, nread0>>
    /\ UNCHANGED <<codecVars, libraryVars, transportVars, sessionVars>>

\* Not pipelined: the write of stream.command(MAIL / RCPT / DATA) (238-255).
CommandWrite ==
    /\ op = "send" /\ ~pipelined
    /\ \/ /\ pc = "mail"
          /\ send_command(MailCommand(mail_options))
          /\ pc' = "mail_reply"
       \/ /\ pc = "rcpt"
          /\ send_command(RcptCommand(step + 1, {}))
          /\ pc' = "rcpt_reply"
       \/ /\ pc = "data"
          /\ send_command(Cmd("DATA", 0))
          /\ pc' = "data_reply"
    /\ UNCHANGED <<server_info, client_info, nread, op, to, step, sent_commands, challenges,
                   response, result, pipelined, ops, base, nread0, failed>>
    /\ UNCHANGED <<codecVars, libraryVars, transportVars, sessionVars>>

\* A read that lets a rejected recipient pass: the RCPT reply is not looked at.
CommandReadLenient ==
    /\ op = "send" /\ ~pipelined
    /\ pc \in {"mail_reply", "rcpt_reply", "data_reply"}
    /\ ReplyAvailable
    /\ \E code \in ServerReplies(op) :
         /\ nread' = nread + 1
         /\ response' = code
         /\ IF ReadResponse(code).kind = "Ok" \/ pc = "rcpt_reply"
            THEN /\ pc' = CASE pc = "mail_reply" -> "rcpt"
                            [] pc = "rcpt_reply" -> IF step + 1 < to THEN "rcpt" ELSE "data"
                            [] pc = "data_reply" -> "message"
                 /\ step' = CASE pc = "mail_reply" -> 0
                             [] pc = "rcpt_reply" -> step + 1
                             [] pc = "data_reply" -> step
                 /\ UNCHANGED <<result, failed>>
            ELSE /\ Return(ReadResponse(code))
                 /\ UNCHANGED step
    /\ UNCHANGED <<server_info, client_info, sent, op, to, sent_commands, challenges,
                   pipelined, ops, base, nread0>>
    /\ UNCHANGED <<codecVars, libraryVars, transportVars, sessionVars>>

\* Not pipelined: the read of stream.command(..).await? (238-255): a non-positive
\* reply makes send return, a positive one leads to the next command.
CommandRead ==
    /\ op = "send" /\ ~pipelined
    /\ pc \in {"mail_reply", "rcpt_reply", "data_reply"}
    /\ ReplyAvailable
    /\ \E code \in ServerReplies(op) :
         /\ nread' = nread + 1
         /\ response' = code
         /\ IF ReadResponse(code).kind = "Ok"
            THEN /\ pc' = CASE pc = "mail_reply" -> "rcpt"
                            [] pc = "rcpt_reply" -> IF step + 1 < to THEN "rcpt" ELSE "data"
                            [] pc = "data_reply" -> "message"
                 /\ step' = CASE pc = "mail_reply" -> 0
                             [] pc = "rcpt_reply" -> step + 1
                             [] pc = "data_reply" -> step
                 /\ UNCHANGED <<result, failed>>
            ELSE /\ Return(ReadResponse(code))
                 /\ UNCHANGED step
    /\ UNCHANGED <<server_info, client_info, sent, op, to, sent_commands, challenges,
                   pipelined, ops, base, nread0>>
    /\ UNCHANGED <<codecVars, libraryVars, transportVars, sessionVars>>

\* stream.message(..): the encoded body and the end-of-body bytes are written
\* (src/smtp_client.rs:258, src/stream.rs:106-121).
MessageWrite ==
    /\ op = "send" /\ pc = "message"
    /\ send_command(Cmd("BODY", 0))
    /\ pc' = "message_reply"
    /\ UNCHANGED <<server_info, client_info, nread, op, to, step, sent_commands, challenges,
                   response, result, pipelined, ops, base, nread0, failed>>
    /\ UNCHANGED <<codecVars, libraryVars, transportVars, sessionVars>>

\* stream.message(..): the final reply is read and returned (src/stream.rs:123,
\* src/smtp_client.rs:258-269).
MessageRead ==
    /\ op = "send" /\ pc = "message_reply"
    /\ ReplyAvailable
    /\ \E code \in ServerReplies(op) :
         /\ nread' = nread + 1
         /\ response' = code
         /\ Return(ReadResponse(code))
    /\ UNCHANGED <<server_info, client_info, sent, op, to, step, sent_commands, challenges,
                   pipelined, ops, base, nread0>>
    /\ UNCHANGED <<codecVars, libraryVars, transportVars, sessionVars>>

\* quit: QUIT is written (src/smtp_client.rs:163-164).
QuitWrite ==
    /\ Begin("quit", MaxOps)
    /\ send_command(Cmd("QUIT", 0))
    /\ pc' = "quit_reply"
    /\ UNCHANGED <<server_info, client_info, nread, to, step, sent_commands, challenges,
                   response, pipelined, failed>>
    /\ UNCHANGED <<codecVars, libraryVars, transportVars, sessionVars>>

\* quit: its reply is read (src/smtp_client.rs:164-166).
QuitRead ==
    /\ op = "quit" /\ pc = "quit_reply"
    /\ ReplyAvailable
    /\ \E code \in ServerReplies(op) :
         /\ nread' = nread + 1
         /\ response' = code
         /\ Return(ReadResponse(code))
    /\ UNCHANGED <<server_info, client_info, sent, op, to, step, sent_commands, challenges,
                   pipelined, ops, base, nread0>>
    /\ UNCHANGED <<codecVars, libraryVars, transportVars, sessionVars>>

\* Extension::Authentication(mechanism) as an element of server_info.
Authentication(m) == "AUTH " \o m

\* ServerInfo::supports_auth_mechanism (src/smtp/extension.rs:209-212).
supports_auth_mechanism(mechanism) == Authentication(mechanism) \in server_info

\* The lists of distinct mechanisms a caller may pass to try_login.
MechanismLists ==
    {l \in SeqsUpTo(Mechanisms, Cardinality(Mechanisms)) :
        \A i, j \in 1..Len(l) : i # j => l[i] # l[j]}

\* A search that prefers the last advertised element to the first.
findLast(list) ==
    LET hits == {i \in 1..Len(list) : supports_auth_mechanism(list[i])}
    IN  IF hits = {} THEN 0
        ELSE CHOOSE i \in hits : \A j \in hits : i >= j

\* accepted_mechanisms.iter().find(|m| supports_auth_mechanism(m))
\* (src/smtp_client.rs:132-134): the index of the first element the server
\* advertises, 0 for None.
find(list) ==
    LET hits == {i \in 1..Len(list) : supports_auth_mechanism(list[i])}
    IN  IF hits = {} THEN 0
        ELSE CHOOSE i \in hits : \A j \in hits : i <= j

\* try_login (src/smtp_client.rs:127-142): with a mechanism found, auth starts
\* (172-176: challenges = 10, the initial AUTH command is written); with none,
\* Ok(()) is returned.
TryLoginBegin ==
    /\ pc = "idle"
    /\ engine = "held"
    /\ ops < MaxAuths
    /\ op' = "try_login"
    /\ ops' = ops + 1
    /\ base' = Len(sent)
    /\ nread0' = nread
    /\ \E list \in MechanismLists :
         /\ accepted_mechanisms' = list
         /\ IF find(list) # 0
            THEN /\ challenges' = MaxChallenges
                 /\ send_command(Cmd("AUTH", list[find(list)]))
                 /\ pc' = "auth_reply"
                 /\ result' = NoResult
                 /\ UNCHANGED failed
            ELSE /\ Return([kind |-> "Ok", code |-> 0])
                 /\ UNCHANGED <<challenges, sent>>
    /\ UNCHANGED <<server_info, client_info, nread, to, step, sent_commands, response,
                   pipelined>>
    /\ UNCHANGED <<codecVars, libraryVars, transportVars, mail_options, ehlo_response, engine>>

\* ClientId and its Display (src/smtp/extension.rs:26-57): a domain is written as
\* it is, an address literal in brackets.
ClientIds ==
    {[tag |-> "Domain", value |-> "localhost"],
     [tag |-> "Ipv4", value |-> "127.0.0.1"],
     [tag |-> "Ipv6", value |-> "::1"]}

ClientIdDisplay(id) ==
    CASE id.tag = "Domain" -> id.value
      [] id.tag = "Ipv4" -> "[" \o id.value \o "]"
      [] id.tag = "Ipv6" -> "[IPv6:" \o id.value \o "]"

\* ClientId::new(domain) (src/smtp/extension.rs:61-63).
ClientIdNew(domain) == [tag |-> "Domain", value |-> domain]

\* EhloCommand::new(ClientId::new(hello_name.to_string())) as written
\* (src/smtp_client.rs:111, src/commands.rs:18-22).
EhloCommand(hello_name) ==
    Cmd("EHLO", ClientIdDisplay(ClientIdNew(ClientIdDisplay(hello_name))))

\* The extensions an EHLO reply may advertise here.
Advertised == {"PIPELINING", "STARTTLS", Authentication("PLAIN")}

\* ServerInfo::from_response (src/smtp/extension.rs:150-202): an error without a
\* first word (the server name), else the features of the recognised lines.
FromResponse(r) ==
    IF r.named
    THEN [kind |-> "Ok", features |-> r.features]
    ELSE [kind |-> "ResponseParsing", features |-> {}]

\* An open that never waits for a greeting.
OpenBeginEhloFirst ==
    /\ engine = "unopened"
    /\ pc = "idle"
    /\ op' = "open"
    /\ ops' = ops + 1
    /\ base' = Len(sent)
    /\ nread0' = nread
    /\ result' = NoResult
    /\ pc' = "ehlo"
    /\ UNCHANGED <<server_info, client_info, sent, nread, to, step, sent_commands,
                   challenges, response, pipelined, failed>>
    /\ UNCHANGED <<codecVars, libraryVars, transportVars, sessionVars>>

\* SmtpTransport::new (src/smtp_client.rs:105-107): the greeting is awaited only
\* with expect_greeting.
OpenBegin ==
    /\ engine = "unopened"
    /\ pc = "idle"
    /\ op' = "open"
    /\ ops' = ops + 1
    /\ base' = Len(sent)
    /\ nread0' = nread
    /\ result' = NoResult
    /\ pc' = IF client_info.expect_greeting THEN "greeting" ELSE "ehlo"
    /\ UNCHANGED <<server_info, client_info, sent, nread, to, step, sent_commands,
                   challenges, response, pipelined, failed>>
    /\ UNCHANGED <<codecVars, libraryVars, transportVars, sessionVars>>

\* new: let _greeting = stream.read_response().await? (108).  On an error the
\* stream, owned by new, is dropped.
OpenGreetingRead ==
    /\ op = "open" /\ pc = "greeting"
    /\ ReplyAvailable
    /\ \E code \in ServerReplies(op) :
         /\ nread' = nread + 1
         /\ response' = code
         /\ IF ReadResponse(code).kind = "Ok"
            THEN /\ pc' = "ehlo"
                 /\ UNCHANGED <<result, failed, engine>>
            ELSE /\ Return(ReadResponse(code))
                 /\ engine' = "dropped"
    /\ UNCHANGED <<server_info, client_info, sent, op, to, step, sent_commands, challenges,
                   pipelined, ops, base, nread0>>
    /\ UNCHANGED <<codecVars, libraryVars, transportVars, accepted_mechanisms, mail_options, ehlo_response>>

\* new: stream.ehlo(..) writes the EHLO command (110-112, src/stream.rs:43-51).
OpenEhloWrite ==
    /\ op = "open" /\ pc = "ehlo"
    /\ send_command(EhloCommand(client_info.hello_name))
    /\ pc' = "ehlo_reply"
    /\ UNCHANGED <<server_info, client_info, nread, op, to, step, sent_commands, challenges,
                   response, result, pipelined, ops, base, nread0, failed>>
    /\ UNCHANGED <<codecVars, libraryVars, transportVars, sessionVars>>

\* new: the reply to EHLO is read and parsed into server_info (112-124).
OpenEhloRead ==
    /\ op = "open" /\ pc = "ehlo_reply"
    /\ ReplyAvailable
    /\ \E code \in ServerReplies(op), named \in BOOLEAN, features \in SUBSET Advertised :
         LET r == [named |-> named, features |-> features]
         IN  /\ nread' = nread + 1
             /\ response' = code
             /\ IF ReadResponse(code).kind # "Ok"
                THEN /\ Return(ReadResponse(code))
                     /\ engine' = "dropped"
                     /\ UNCHANGED <<server_info, ehlo_response>>
                ELSE /\ ehlo_response' = r
                     /\ IF FromResponse(r).kind = "Ok"
                        THEN /\ server_info' = FromResponse(r).features
                             /\ engine' = "held"
                             /\ Return([kind |-> "Ok", code |-> code])
                        ELSE /\ Return([kind |-> FromResponse(r).kind, code |-> code])
                             /\ engine' = "dropped"
                             /\ UNCHANGED server_info
    /\ UNCHANGED <<client_info, sent, op, to, step, sent_commands, challenges,
                   pipelined, ops, base, nread0>>
    /\ UNCHANGED <<codecVars, libraryVars, transportVars, accepted_mechanisms, mail_options>>

\* A starttls that does not look at server_info before writing.
StarttlsBeginUnchecked ==
    /\ pc = "idle"
    /\ engine = "held"
    /\ ops < MaxOps
    /\ op' = "starttls"
    /\ ops' = ops + 1
    /\ base' = Len(sent)
    /\ nread0' = nread
    /\ send_command(Cmd("STARTTLS", 0))
    /\ pc' = "starttls_reply"
    /\ result' = NoResult
    /\ UNCHANGED <<failed, engine>>
    /\ UNCHANGED <<server_info, client_info, nread, to, step, sent_commands, challenges,
                   response, pipelined>>
    /\ UNCHANGED <<codecVars, libraryVars, transportVars, accepted_mechanisms, mail_options, ehlo_response>>

\* starttls(mut self) (src/smtp_client.rs:147-152): without the STARTTLS extension
\* a Client error is returned, and self, taken by value, is dropped with its
\* stream; otherwise the STARTTLS command is written.
StarttlsBegin ==
    /\ pc = "idle"
    /\ engine = "held"
    /\ ops < MaxOps
    /\ op' = "starttls"
    /\ ops' = ops + 1
    /\ base' = Len(sent)
    /\ nread0' = nread
    /\ IF ~supports_feature("STARTTLS")
       THEN /\ Return([kind |-> "Client", code |-> 0])
            /\ engine' = "dropped"
            /\ UNCHANGED sent
       ELSE /\ send_command(Cmd("STARTTLS", 0))
            /\ pc' = "starttls_reply"
            /\ result' = NoResult
            /\ UNCHANGED <<failed, engine>>
    /\ UNCHANGED <<server_info, client_info, nread, to, step, sent_commands, challenges,
                   response, pipelined>>
    /\ UNCHANGED <<codecVars, libraryVars, transportVars, accepted_mechanisms, mail_options, ehlo_response>>

\* A starttls that hands the stream back whatever the reply.
StarttlsReadAlways ==
    /\ op = "starttls" /\ pc = "starttls_reply"
    /\ ReplyAvailable
    /\ \E code \in ServerReplies(op) :
         /\ nread' = nread + 1
         /\ response' = code
         /\ Return(ReadResponse(code))
         /\ engine' = "returned"
    /\ UNCHANGED <<server_info, client_info, sent, op, to, step, sent_commands, challenges,
                   pipelined, ops, base, nread0>>
    /\ UNCHANGED <<codecVars, libraryVars, transportVars, accepted_mechanisms, mail_options, ehlo_response>>

\* starttls: the reply is read (152); a positive one gives Ok(stream.into_inner())
\* (155, src/stream.rs:38-40), otherwise the error is returned and self is dropped.
StarttlsRead ==
    /\ op = "starttls" /\ pc = "starttls_reply"
    /\ ReplyAvailable
    /\ \E code \in ServerReplies(op) :
         /\ nread' = nread + 1
         /\ response' = code
         /\ Return(ReadResponse(code))
         /\ engine' = IF ReadResponse(code).kind = "Ok" THEN "returned" ELSE "dropped"
    /\ UNCHANGED <<server_info, client_info, sent, op, to, step, sent_commands, challenges,
                   pipelined, ops, base, nread0>>
    /\ UNCHANGED <<codecVars, libraryVars, transportVars, accepted_mechanisms, mail_options, ehlo_response>>

\* auth: challenges = 10 and the initial AUTH command is written (172-176).
AuthBegin ==
    /\ Begin("auth", MaxAuths)
    /\ challenges' = MaxChallenges
    /\ \E m \in Mechanisms : send_command(Cmd("AUTH", m))
    /\ pc' = "auth_reply"
    /\ UNCHANGED <<server_info, client_info, nread, to, step, sent_commands, response,
                   pipelined, failed>>
    /\ UNCHANGED <<codecVars, libraryVars, transportVars, sessionVars>>

\* auth: the read of stream.command(..).await? (173-176 and 180-187).
AuthRead ==
    /\ op \in {"auth", "try_login"} /\ pc = "auth_reply"
    /\ ReplyAvailable
    /\ \E code \in ServerReplies(op) :
         /\ nread' = nread + 1
         /\ response' = code
         /\ IF ReadResponse(code).kind = "Ok"
            THEN /\ pc' = "auth_loop"
                 /\ UNCHANGED <<result, failed>>
            ELSE Return(ReadResponse(code))
    /\ UNCHANGED <<server_info, client_info, sent, op, to, step, sent_commands, challenges,
                   pipelined, ops, base, nread0>>
    /\ UNCHANGED <<codecVars, libraryVars, transportVars, sessionVars>>

\* auth: while challenges > 0 && response.has_code(334) (178).
AuthLoopCondition == challenges > 0 /\ HasCode(response, 334)

\* auth: the loop's body (179-187): AuthCommand::new_from_response decodes the
\* challenge and asks the mechanism for the answer, which fails for a challenge
\* that is not base64 / UTF-8 or that the mechanism does not expect
\* (src/commands.rs:251-276); otherwise the answer is written.
AuthChallenge ==
    /\ op \in {"auth", "try_login"} /\ pc = "auth_loop"
    /\ AuthLoopCondition
    /\ challenges' = challenges - 1
    /\ \E accepted \in BOOLEAN :
         IF accepted
         THEN /\ send_command(Cmd("RESPONSE", "base64"))
              /\ pc' = "auth_reply"
              /\ UNCHANGED <<result, failed>>
         ELSE /\ Return([kind |-> "Challenge", code |-> response])
              /\ UNCHANGED sent
    /\ UNCHANGED <<server_info, client_info, nread, op, to, step, sent_commands, response,
                   pipelined, ops, base, nread0>>
    /\ UNCHANGED <<codecVars, libraryVars, transportVars, sessionVars>>

\* auth: after the loop (190-194).  try_login turns auth's Ok(response) into
\* Ok(()) (136, 141).
AuthFinish ==
    /\ op \in {"auth", "try_login"} /\ pc = "auth_loop"
    /\ ~AuthLoopCondition
    /\ IF challenges = 0
       THEN Return([kind |-> "ResponseParsing", code |-> 0])
       ELSE Return([kind |-> "Ok", code |-> IF op = "try_login" THEN 0 ELSE response])
    /\ UNCHANGED <<server_info, client_info, sent, nread, op, to, step, sent_commands,
                   challenges, response, pipelined, ops, base, nread0>>
    /\ UNCHANGED <<codecVars, libraryVars, transportVars, sessionVars>>

(***************************************************************************)
(* The pooled SmtpTransport (src/smtp/transport.rs) over InnerClient       *)
(* (src/smtp/client/inner.rs): send_stream_with_timeout, the try_smtp!     *)
(* macro and close().  The client is Present in its Potential here.        *)
(***************************************************************************)

\* try_smtp!'s Err arm (transport.rs:51-57): the first failure sets panic and
\* closes the connection, keeping the error to return it afterwards; with panic
\* already set the error is returned at once.
TrySmtpErr(err) ==
    IF ~panic
    THEN /\ panic' = TRUE
         /\ pending' = err
         /\ pc' = "close"
         /\ UNCHANGED <<result, failed>>
    ELSE /\ Return(err)
         /\ UNCHANGED <<panic, pending>>

\* InnerClient::write refuses when there is no stream (inner.rs:270-272).
ConnectionClosed == [kind |-> "Client", code |-> 0]

\* The features the pooled transport's supports_feature sees (transport.rs:
\* 294-299): those of server_info, none when server_info is None.
Features == IF has_info THEN server_info ELSE {}

\* send_stream_with_timeout up to the first command (transport.rs:315-331).
StreamSendBegin ==
    /\ Begin("send_stream", MaxOps)
    /\ \E n \in 1..MaxRcpt : to' = n
    /\ pc' = "mail"
    /\ step' = 0
    /\ mail_options' = MailOptions(Features, client_info.smtp_utf8)
    /\ UNCHANGED <<server_info, client_info, sent, nread, sent_commands, challenges,
                   response, pipelined, failed>>
    /\ UNCHANGED <<codecVars, libraryVars, transportVars, accepted_mechanisms, ehlo_response, engine>>

\* The write of command_with_timeout(MAIL / RCPT / DATA) (transport.rs:333-358,
\* inner.rs:257-285).
StreamCommandWrite ==
    /\ op = "send_stream"
    /\ pc \in {"mail", "rcpt", "data"}
    /\ IF stream = "none"
       THEN /\ TrySmtpErr(ConnectionClosed)
            /\ UNCHANGED sent
       ELSE /\ send_command(CASE pc = "mail" -> MailCommand(mail_options)
                              [] pc = "rcpt" -> RcptCommand(step + 1, {})
                              [] pc = "data" -> Cmd("DATA", 0))
            /\ pc' = CASE pc = "mail" -> "mail_reply"
                       [] pc = "rcpt" -> "rcpt_reply"
                       [] pc = "data" -> "data_reply"
            /\ UNCHANGED <<result, failed, panic, pending>>
    /\ UNCHANGED <<server_info, client_info, nread, op, to, step, sent_commands,
                   challenges, response, pipelined, ops, base, nread0>>
    /\ UNCHANGED <<codecVars, libraryVars, stream, timed_out, has_info, sessionVars>>

\* The read of command_with_timeout (inner.rs:265, 300-332) under try_smtp!.
StreamCommandRead ==
    /\ op = "send_stream"
    /\ pc \in {"mail_reply", "rcpt_reply", "data_reply"}
    /\ ReplyAvailable
    /\ \E code \in ServerReplies(op) :
         /\ nread' = nread + 1
         /\ response' = code
         /\ IF ReadResponse(code).kind = "Ok"
            THEN /\ pc' = CASE pc = "mail_reply" -> "rcpt"
                            [] pc = "rcpt_reply" -> IF step + 1 < to THEN "rcpt" ELSE "data"
                            [] pc = "data_reply" -> "body"
                 /\ step' = CASE pc = "mail_reply" -> 0
                             [] pc = "rcpt_reply" -> step + 1
                             [] pc = "data_reply" -> step
                 /\ UNCHANGED <<result, failed, panic, pending>>
            ELSE /\ TrySmtpErr(ReadResponse(code))
                 /\ UNCHANGED step
    /\ UNCHANGED <<server_info, client_info, sent, op, to, sent_commands, challenges,
                   pipelined, ops, base, nread0>>
    /\ UNCHANGED <<codecVars, libraryVars, stream, timed_out, has_info, sessionVars>>

\* The body through the returned SmtpStream, closed with the final dot
\* (lib.rs:109-110, transport.rs:490-496).
StreamBodyWrite ==
    /\ op = "send_stream" /\ pc = "body"
    /\ send_command(Cmd("BODY", 0))
    /\ pc' = "body_reply"
    /\ UNCHANGED <<server_info, client_info, nread, op, to, step, sent_commands,
                   challenges, response, result, pipelined, ops, base, nread0, failed>>
    /\ UNCHANGED <<codecVars, libraryVars, transportVars, sessionVars>>

\* The final reply, read by poll_close and given by result() (transport.rs:498-518,
\* 398-403, lib.rs:111).
StreamBodyRead ==
    /\ op = "send_stream" /\ pc = "body_reply"
    /\ ReplyAvailable
    /\ \E code \in ServerReplies(op) :
         /\ nread' = nread + 1
         /\ response' = code
         /\ Return(ReadResponse(code))
    /\ UNCHANGED <<server_info, client_info, sent, op, to, step, sent_commands,
                   challenges, pipelined, ops, base, nread0>>
    /\ UNCHANGED <<codecVars, libraryVars, transportVars, sessionVars>>

\* close() called by the user (transport.rs:283).
CloseBegin ==
    /\ Begin("close", MaxOps)
    /\ pc' = "close"
    /\ pending' = NoResult
    /\ UNCHANGED <<server_info, client_info, sent, nread, to, step, sent_commands,
                   challenges, response, pipelined, failed>>
    /\ UNCHANGED <<codecVars, libraryVars, panic, stream, timed_out, has_info, sessionVars>>

\* close(): InnerClient::close writes QUIT (transport.rs:285, inner.rs:79-80); with
\* no stream the write fails and close() returns that error.
CloseWrite ==
    /\ pc = "close"
    /\ IF stream = "none"
       THEN /\ Return(ConnectionClosed)
            /\ pending' = NoResult
            /\ UNCHANGED sent
       ELSE /\ send_command(Cmd("QUIT", 0))
            /\ pc' = "close_reply"
            /\ UNCHANGED <<result, failed, pending>>
    /\ UNCHANGED <<server_info, client_info, nread, op, to, step, sent_commands,
                   challenges, response, pipelined, ops, base, nread0>>
    /\ UNCHANGED <<codecVars, libraryVars, panic, stream, timed_out, has_info, sessionVars>>

\* A close() that drops the stream and resets server_info and panic whatever
\* the reply to QUIT is.
CloseReadAlwaysResets ==
    /\ pc = "close_reply"
    /\ ReplyAvailable
    /\ \E code \in ServerReplies(op) :
         /\ nread' = nread + 1
         /\ response' = code
         /\ stream' = "none"
         /\ has_info' = FALSE
         /\ panic' = FALSE
         /\ IF ReadResponse(code).kind = "Ok"
            THEN Return(IF pending.kind = "none" THEN ReadResponse(code) ELSE pending)
            ELSE Return(ReadResponse(code))
    /\ pending' = NoResult
    /\ UNCHANGED <<server_info, client_info, sent, op, to, step, sent_commands,
                   challenges, pipelined, ops, base, nread0>>
    /\ UNCHANGED <<codecVars, libraryVars, timed_out, sessionVars>>

\* close(): the reply to QUIT (inner.rs:80-83, transport.rs:285-291).  A positive
\* reply drops the stream and resets server_info and panic, and try_smtp! then
\* returns the error it held; otherwise close()'s own error is returned.
CloseRead ==
    /\ pc = "close_reply"
    /\ ReplyAvailable
    /\ \E code \in ServerReplies(op) :
         /\ nread' = nread + 1
         /\ response' = code
         /\ IF ReadResponse(code).kind = "Ok"
            THEN /\ stream' = "none"
                 /\ has_info' = FALSE
                 /\ panic' = FALSE
                 /\ Return(IF pending.kind = "none" THEN ReadResponse(code) ELSE pending)
            ELSE /\ Return(ReadResponse(code))
                 /\ UNCHANGED <<stream, has_info, panic>>
    /\ pending' = NoResult
    /\ UNCHANGED <<server_info, client_info, sent, op, to, step, sent_commands,
                   challenges, pipelined, ops, base, nread0>>
    /\ UNCHANGED <<codecVars, libraryVars, timed_out, sessionVars>>

(***************************************************************************)
(* connect() of the pooled transport (src/smtp/transport.rs:129-280): the  *)
(* greeting, EHLO, try_tls with the second EHLO, try_login without         *)
(* credentials.  The TCP connection and the TLS handshake succeed.         *)
(***************************************************************************)

\* The extensions an EHLO reply to the pooled transport may advertise here.
TlsAdvertised == {"STARTTLS", "8BITMIME"}

\* try_smtp!'s Err arm inside try_tls, where the client is leased to the caller
\* (transport.rs:225, 238-241): close() awaits the client in self.client(), which
\* the lease held by try_tls itself never gives back.
TrySmtpErrLeased(err) ==
    IF ~panic
    THEN /\ panic' = TRUE
         /\ pending' = err
         /\ pc' = "blocked"
         /\ UNCHANGED <<result, failed>>
    ELSE /\ Return(err)
         /\ UNCHANGED <<panic, pending>>

\* connect (129-148): not connected yet, the stream is opened.
ConnectBegin ==
    /\ Begin("connect", MaxOps)
    /\ ops = 0
    /\ stream = "none"
    /\ stream' = "open"
    /\ pc' = "greeting"
    /\ UNCHANGED <<server_info, client_info, sent, nread, to, step, sent_commands,
                   challenges, response, pipelined, failed>>
    /\ UNCHANGED <<codecVars, libraryVars, panic, has_info, pending, timed_out, sessionVars>>

\* connect: the greeting is read (149-152); an error is returned as it is.
ConnectGreetingRead ==
    /\ op = "connect" /\ pc = "greeting"
    /\ ReplyAvailable
    /\ \E code \in ServerReplies(op) :
         /\ nread' = nread + 1
         /\ response' = code
         /\ IF ReadResponse(code).kind = "Ok"
            THEN /\ pc' = "ehlo"
                 /\ step' = 0
                 /\ UNCHANGED <<result, failed>>
            ELSE /\ Return(ReadResponse(code))
                 /\ UNCHANGED step
    /\ UNCHANGED <<server_info, client_info, sent, op, to, sent_commands, challenges,
                   pipelined, ops, base, nread0>>
    /\ UNCHANGED <<codecVars, libraryVars, transportVars, sessionVars>>

\* ehlo (262-268): the EHLO command is written.  step tells the EHLO of
\* post_connect (0) from the one try_tls sends after the upgrade (1).
EhloWrite ==
    /\ op = "connect" /\ pc = "ehlo"
    /\ send_command(EhloCommand(client_info.hello_name))
    /\ pc' = "ehlo_reply"
    /\ UNCHANGED <<server_info, client_info, nread, op, to, step, sent_commands, challenges,
                   response, result, pipelined, ops, base, nread0, failed>>
    /\ UNCHANGED <<codecVars, libraryVars, transportVars, sessionVars>>

\* ehlo (262-279): the reply is read and parsed under try_smtp!; server_info is
\* assigned only on success.  After the first EHLO try_tls follows (93-95); after
\* the second, try_login, which returns Ok without credentials (97, 176-178).
EhloRead ==
    /\ op = "connect" /\ pc = "ehlo_reply"
    /\ ReplyAvailable
    /\ \E code \in ServerReplies(op), named \in BOOLEAN, features \in SUBSET TlsAdvertised :
         LET r == [named |-> named, features |-> features]
         IN  /\ nread' = nread + 1
             /\ response' = code
             /\ IF ReadResponse(code).kind # "Ok"
                THEN /\ TrySmtpErr(ReadResponse(code))
                     /\ ehlo_response' = NoEhlo
                     /\ UNCHANGED <<server_info, has_info>>
                ELSE /\ ehlo_response' = r
                     /\ IF FromResponse(r).kind = "Ok"
                        THEN /\ server_info' = FromResponse(r).features
                             /\ has_info' = TRUE
                             /\ IF step = 0
                                THEN /\ pc' = "try_tls"
                                     /\ UNCHANGED <<result, failed>>
                                ELSE Return([kind |-> "Ok", code |-> code])
                             /\ UNCHANGED <<panic, pending>>
                        ELSE /\ TrySmtpErr([kind |-> FromResponse(r).kind, code |-> code])
                             /\ UNCHANGED <<server_info, has_info>>
    /\ UNCHANGED <<client_info, sent, op, to, step, sent_commands, challenges,
                   pipelined, ops, base, nread0>>
    /\ UNCHANGED <<codecVars, libraryVars, stream, timed_out, accepted_mechanisms, mail_options, engine>>

\* try_tls (223-241): by the configured security and the STARTTLS extension,
\* nothing is done, connect fails, or the STARTTLS command is written.
TryTls ==
    /\ op = "connect" /\ pc = "try_tls"
    /\ LET required == client_info.security = "Required"
           wanted == client_info.security \in {"Opportunistic", "Required"}
           offered == "STARTTLS" \in Features
       IN  CASE required /\ ~offered ->
                  /\ Return([kind |-> "Client", code |-> 0])
                  /\ UNCHANGED sent
             [] wanted /\ offered ->
                  /\ send_command(Cmd("STARTTLS", 0))
                  /\ pc' = "starttls_reply"
                  /\ UNCHANGED <<result, failed>>
             [] OTHER ->
                  /\ Return([kind |-> "Ok", code |-> response])
                  /\ UNCHANGED sent
    /\ UNCHANGED <<server_info, client_info, nread, op, to, step, sent_commands, challenges,
                   response, pipelined, ops, base, nread0>>
    /\ UNCHANGED <<codecVars, libraryVars, transportVars, sessionVars>>

\* try_tls (238-253): the reply to STARTTLS; on a positive one the stream is
\* upgraded, the lease given back, and EHLO is sent again.
TryTlsRead ==
    /\ op = "connect" /\ pc = "starttls_reply"
    /\ ReplyAvailable
    /\ \E code \in ServerReplies(op) :
         /\ nread' = nread + 1
         /\ response' = code
         /\ IF ReadResponse(code).kind = "Ok"
            THEN /\ pc' = "ehlo"
                 /\ step' = 1
                 /\ UNCHANGED <<result, failed, panic, pending>>
            ELSE /\ TrySmtpErrLeased(ReadResponse(code))
                 /\ UNCHANGED step
    /\ UNCHANGED <<server_info, client_info, sent, op, to, sent_commands, challenges,
                   pipelined, ops, base, nread0>>
    /\ UNCHANGED <<codecVars, libraryVars, stream, timed_out, has_info, sessionVars>>

(***************************************************************************)
(* Deadlines: with_timeout around the write and the read of a command      *)
(* (src/smtp/client/inner.rs:249-266, 349-385).                            *)
(***************************************************************************)

\* The runtimes with_timeout is written for (inner.rs:350, 368).
Runtimes == {"tokio", "async-std"}

\* The error with_timeout returns when the timer fires.  Under tokio the Elapsed
\* value converts with From into the Timeout kind (inner.rs:357-360, error.rs:
\* 48-50); under async-std the TimeoutError is first wrapped into an io::Error of
\* kind TimedOut, which From turns into Io (inner.rs:378-380, smtp/error.rs:89-93).
with_timeout(runtime) ==
    [kind |-> IF runtime = "tokio" THEN "Timeout" ELSE "Io", code |-> 0]

\* command_with_timeout(MAIL / RCPT, Some(deadline)) whose timer fires while the
\* command is written or its reply awaited (transport.rs:333-353, inner.rs:
\* 257-266): nothing more is written or read, and try_smtp! gets the error.
CommandTimeout ==
    /\ op = "send_stream"
    /\ pc \in {"mail", "rcpt", "mail_reply", "rcpt_reply"}
    /\ stream = "open"
    /\ timed_out' = ops
    /\ TrySmtpErr(with_timeout(client_info.runtime))
    /\ UNCHANGED <<server_info, client_info, sent, nread, op, to, step, sent_commands,
                   challenges, response, pipelined, ops, base, nread0>>
    /\ UNCHANGED <<codecVars, libraryVars, stream, has_info, sessionVars>>

(***************************************************************************)
(* ServerInfo::from_response (src/smtp/extension.rs:150-202) on the lines  *)
(* of an EHLO reply.  A line is the sequence of its whitespace-separated   *)
(* tokens (line.split_whitespace()); the empty line is <<>>.               *)
(***************************************************************************)

\* Nothing was parsed yet.
NoParse == [kind |-> "none", name |-> "", features |-> {}]

\* Response::first_word: the first token of the first line, if there is one.
first_word(msg) ==
    IF Len(msg) > 0 /\ Len(msg[1]) > 0 THEN <<msg[1][1]>> ELSE <<>>

\* One iteration of the loop of from_response (158-195): the features the line
\* inserts.  The first token is matched against the literals as it is written.
LineFeatures(split) ==
    IF split = <<>> THEN {}
    ELSE CASE split[1] = "PIPELINING" -> {"PIPELINING"}
           [] split[1] = "8BITMIME" -> {"8BITMIME"}
           [] split[1] = "SMTPUTF8" -> {"SMTPUTF8"}
           [] split[1] = "STARTTLS" -> {"STARTTLS"}
           [] split[1] = "AUTH" ->
                {Authentication(split[i]) :
                    i \in {j \in 2..Len(split) : split[j] \in {"PLAIN", "LOGIN", "XOAUTH2"}}}
           [] OTHER -> {}

\* from_response (150-201): the name is the first word; every line of
\* response.message is visited.
from_response(msg) ==
    IF first_word(msg) = <<>>
    THEN [kind |-> "ResponseParsing", name |-> "", features |-> {}]
    ELSE [kind |-> "Ok", name |-> first_word(msg)[1],
          features |-> UNION {LineFeatures(msg[i]) : i \in 1..Len(msg)}]

\* The tokens the lines of a reply are made of here: a name, keywords and
\* mechanisms in upper, lower and mixed case.
Tokens == {"me", "STARTTLS", "starttls", "Pipelining", "AUTH", "auth", "PLAIN", "plain"}

MaxTokens == 3
MaxLines == 2

\* The replies parsed: up to MaxLines lines of up to MaxTokens words each.
Messages == UNION {[1..n -> SeqsUpTo(Tokens, MaxTokens)] : n \in 0..MaxLines}

\* The caller parses the reply it read.
FromResponseCall ==
    /\ parsed = NoParse
    /\ parsed' = from_response(message)
    /\ UNCHANGED message
    /\ UNCHANGED <<engineVars, addressVars, envelopeVars, stubVars, readVars, potentialVars, pooledVars>>

\* No reply is being parsed.
EhloIdle ==
    /\ message = <<>>
    /\ parsed = NoParse

(***************************************************************************)
(* EmailAddress::new (src/types.rs:23-33) and the Display of MailCommand   *)
(* and RcptCommand (src/commands.rs:48-84).  A string is the sequence of   *)
(* the code points of its characters.                                      *)
(***************************************************************************)

\* The characters addresses are made of here: NUL, TAB, LF, CR, space, '<', '>',
\* '@', 'a', DEL and a non-ASCII character.
Chars == {0, 9, LF, CR, 32, 60, 62, 64, 97, 127, 233}

MaxAddress == 2

Addresses == SeqsUpTo(Chars, MaxAddress)

\* char::is_ascii, is_ascii_control, is_ascii_whitespace.
is_ascii(c) == c <= 127
is_ascii_control(c) == c <= 31 \/ c = 127
is_ascii_whitespace(c) == c \in {9, 10, 12, 13, 32}

\* A check that rejects only the angle brackets and non-ASCII characters.
InvalidCharBrackets(c) == ~is_ascii(c) \/ c = 60 \/ c = 62

\* The closure of EmailAddress::new (types.rs:26-28).
InvalidChar(c) ==
    ~is_ascii(c) \/ is_ascii_control(c) \/ is_ascii_whitespace(c) \/ c = 60 \/ c = 62

\* EmailAddress::new (types.rs:23-33).
EmailAddressNew(a) ==
    IF \E i \in 1..Len(a) : InvalidChar(a[i])
    THEN [kind |-> "Err", value |-> <<>>]
    ELSE [kind |-> "Ok", value |-> a]

NoAddress == [kind |-> "none", value |-> <<>>]

\* "MAIL FROM:<", "RCPT TO:<", ">", "\r\n"
MailFrom == <<77, 65, 73, 76, 32, 70, 82, 79, 77, 58, 60>>
RcptTo == <<82, 67, 80, 84, 32, 84, 79, 58, 60>>
Closing == <<62>>
CRLF == <<CR, LF>>

\* Display of MailParameter::Body(EightBitMime) and MailParameter::SmtpUtfEight
\* (smtp/extension.rs:237-253), each after the space the command puts before it.
ParameterText(parameter) ==
    IF parameter = "BODY=8BITMIME"
    THEN <<32, 66, 79, 68, 89, 61, 56, 66, 73, 84, 77, 73, 77, 69>>
    ELSE <<32, 83, 77, 84, 80, 85, 84, 70, 56>>

\* The parameter lists send builds (smtp_client.rs:200-209): BODY=8BITMIME first.
ParametersText(parameters) ==
    (IF "BODY=8BITMIME" \in parameters THEN ParameterText("BODY=8BITMIME") ELSE <<>>)
    \o (IF "SMTPUTF8" \in parameters THEN ParameterText("SMTPUTF8") ELSE <<>>)

\* Display for MailCommand (commands.rs:48-60); sender is <<>> for None.
MailCommandDisplay(sender, parameters) ==
    MailFrom \o sender \o Closing \o ParametersText(parameters) \o CRLF

\* Display for RcptCommand (commands.rs:76-84) without parameters, as send
\* builds it (smtp_client.rs:224).
RcptCommandDisplay(recipient) ==
    RcptTo \o recipient \o Closing \o CRLF

\* The caller constructs an address from its string.
NewAddress ==
    /\ email_address = NoAddress
    /\ email_address' = EmailAddressNew(address)
    /\ UNCHANGED <<address, command>>
    /\ UNCHANGED <<engineVars, ehloVars, envelopeVars, stubVars, readVars, potentialVars, pooledVars>>

\* send formats MAIL with the address as sender, or without a sender
\* (smtp_client.rs:211-214).
FormatMail ==
    /\ email_address.kind = "Ok"
    /\ command = <<>>
    /\ \E parameters \in SUBSET {"BODY=8BITMIME", "SMTPUTF8"}, some \in BOOLEAN :
         command' = MailCommandDisplay(IF some THEN email_address.value ELSE <<>>, parameters)
    /\ UNCHANGED <<address, email_address>>
    /\ UNCHANGED <<engineVars, ehloVars, envelopeVars, stubVars, readVars, potentialVars, pooledVars>>

\* send formats RCPT with the address as recipient (smtp_client.rs:222-228).
FormatRcpt ==
    /\ email_address.kind = "Ok"
    /\ command = <<>>
    /\ command' = RcptCommandDisplay(email_address.value)
    /\ UNCHANGED <<address, email_address>>
    /\ UNCHANGED <<engineVars, ehloVars, envelopeVars, stubVars, readVars, potentialVars, pooledVars>>

\* No address was given.
AddressIdle ==
    /\ address = <<>>
    /\ email_address = NoAddress
    /\ command = <<>>

(***************************************************************************)
(* Envelope::new (src/types.rs:77-90) and the send of an email built from  *)
(* the envelope (src/smtp_client.rs:198-228).                              *)
(***************************************************************************)

\* The recipient addresses an envelope is made of here.
RecipientAddresses == {"a", "b"}

NoEnvelope == [kind |-> "none", forward_path |-> <<>>]

\* A constructor that accepts the empty recipient list.
EnvelopeNewUnchecked(t) == [kind |-> "Ok", forward_path |-> t]

\* Envelope::new (types.rs:77-85); the sender plays no part here.
EnvelopeNew(t) ==
    IF t = <<>>
    THEN [kind |-> "Err", forward_path |-> <<>>]
    ELSE [kind |-> "Ok", forward_path |-> t]

\* The caller builds the envelope from its recipient list.
NewEnvelope ==
    /\ envelope = NoEnvelope
    /\ envelope' = EnvelopeNew(recipients)
    /\ UNCHANGED recipients
    /\ UNCHANGED <<engineVars, ehloVars, addressVars, stubVars, readVars, potentialVars, pooledVars>>

\* send of a SendableEmail holding the envelope, up to the choice of the branch
\* (smtp_client.rs:198-213); the loop over email.envelope().to() (222) runs
\* once per element of forward_path.
SendEnvelope ==
    /\ envelope.kind = "Ok"
    /\ Begin("send", MaxOps)
    /\ to' = Len(envelope.forward_path)
    /\ pipelined' = (supports_feature("PIPELINING") /\ client_info.pipelining)
    /\ pc' = "mail"
    /\ step' = 0
    /\ sent_commands' = 0
    /\ mail_options' = MailOptions(server_info, client_info.smtp_utf8)
    /\ UNCHANGED <<server_info, client_info, sent, nread, challenges, response, failed>>
    /\ UNCHANGED <<codecVars, libraryVars, transportVars, accepted_mechanisms, ehlo_response, engine>>

\* No envelope was built.
EnvelopeIdle ==
    /\ recipients = <<>>
    /\ envelope = NoEnvelope

(***************************************************************************)
(* StubTransport (src/stub/mod.rs) driven by Transport::send               *)
(* (src/lib.rs:77-111).                                                    *)
(***************************************************************************)

\* StubResult values: Ok(()), Err("fail".into()) and the error of an empty queue.
StubOk == [kind |-> "Ok", text |-> ""]
StubFail == [kind |-> "Client", text |-> "fail"]
NothingLeft == [kind |-> "Client", text |-> "There's nothing left to say. Hug a tree..."]
NoStubResult == [kind |-> "none", text |-> ""]

MaxSends == 2

\* StubTransport::new / new_positive (stub/mod.rs:24-38): a queue of one response.
StubTransportNew(r) == <<r>>

\* send_stream_with_timeout (stub/mod.rs:44-63) under send_with_timeout
\* (lib.rs:98-106): the front of the queue is popped into the stream; with an
\* empty queue the send fails.
StubSendStream ==
    /\ stub_pc = "idle"
    /\ stub_sends < MaxSends
    /\ stub_sends' = stub_sends + 1
    /\ IF responses = <<>>
       THEN /\ stub_result' = NothingLeft
            /\ UNCHANGED <<responses, stub_stream, stub_pc, copied>>
       ELSE /\ stub_stream' = Head(responses)
            /\ responses' = Tail(responses)
            /\ stub_pc' = "copy"
            /\ copied' = 0
            /\ stub_result' = NoStubResult
    /\ UNCHANGED <<given, email>>
    /\ UNCHANGED <<engineVars, ehloVars, addressVars, envelopeVars, readVars, potentialVars, pooledVars>>

\* copy(email.message(), &mut stream) (lib.rs:108): poll_write takes every
\* buffer whole (stub/mod.rs:83-91).
StubWrite ==
    /\ stub_pc = "copy"
    /\ copied < Len(email)
    /\ \E n \in 1..(Len(email) - copied) : copied' = copied + n
    /\ UNCHANGED <<given, responses, email, stub_stream, stub_pc, stub_sends, stub_result>>
    /\ UNCHANGED <<engineVars, ehloVars, addressVars, envelopeVars, readVars, potentialVars, pooledVars>>

\* stream.close() (lib.rs:109, stub/mod.rs:96-99).
StubClose ==
    /\ stub_pc = "copy"
    /\ copied = Len(email)
    /\ stub_pc' = "closed"
    /\ UNCHANGED <<given, responses, email, copied, stub_stream, stub_sends, stub_result>>
    /\ UNCHANGED <<engineVars, ehloVars, addressVars, envelopeVars, readVars, potentialVars, pooledVars>>

\* stream.result() (lib.rs:110, stub/mod.rs:74-79).
StubStreamResult ==
    /\ stub_pc = "closed"
    /\ stub_result' = stub_stream
    /\ stub_pc' = "idle"
    /\ UNCHANGED <<given, responses, email, copied, stub_stream, stub_sends>>
    /\ UNCHANGED <<engineVars, ehloVars, addressVars, envelopeVars, readVars, potentialVars, pooledVars>>

\* No stub transport exists.
StubIdle ==
    /\ given = NoStubResult
    /\ responses = <<>>
    /\ email = <<>>
    /\ copied = 0
    /\ stub_stream = NoStubResult
    /\ stub_pc = "idle"
    /\ stub_sends = 0
    /\ stub_result = NoStubResult

(***************************************************************************)
(* SmtpStream::read_response (src/stream.rs:74-103) over the lines the     *)
(* server sends.  A line is [code, kind]: "cont" is ddd-text CR LF, "last" *)
(* is ddd text CR LF, "bad" is a line that is no reply line, "cut" is the  *)
(* beginning of a line after which the connection ends.                    *)
(***************************************************************************)

MaxIncoming == 3
MaxReads == 2

ReplyLines == [code : {250, 550}, kind : {"cont", "last", "bad"}]

\* What the server sends: whole lines, and possibly a cut line before the end.
Incoming ==
    LET whole == SeqsUpTo(ReplyLines, MaxIncoming)
    IN  whole \cup {Append(w, [code |-> 250, kind |-> "cut"]) :
                        w \in {v \in whole : Len(v) < MaxIncoming}}

\* parse_response on the accumulated text, from its line i on, the lines before
\* having the code c (0: none yet): the reply's code when a last line completes
\* it, "Incomplete" when the text ends before, "Error" for a line that is no
\* reply line or whose code differs from the first line's.
RECURSIVE ParseFrom(_, _, _)
ParseFrom(buf, i, c) ==
    IF i > Len(buf) THEN [kind |-> "Incomplete", code |-> 0]
    ELSE CASE buf[i].kind = "cut" -> [kind |-> "Incomplete", code |-> 0]
           [] buf[i].kind = "bad" -> [kind |-> "Error", code |-> 0]
           [] c # 0 /\ buf[i].code # c -> [kind |-> "Error", code |-> 0]
           [] buf[i].kind = "last" -> [kind |-> "Ok", code |-> buf[i].code]
           [] OTHER -> ParseFrom(buf, i + 1, buf[i].code)

parse_response(buf) == ParseFrom(buf, 1, 0)

NoReply == [kind |-> "none", code |-> 0]

\* read_response begins: a new, empty buffer (75-76).
ReadResponseBegin ==
    /\ read_pc = "idle"
    /\ reads < MaxReads
    /\ reads' = reads + 1
    /\ started' = consumed
    /\ read_pc' = "loop"
    /\ reply' = NoReply
    /\ UNCHANGED <<incoming, consumed>>
    /\ UNCHANGED <<engineVars, ehloVars, addressVars, envelopeVars, stubVars, potentialVars, pooledVars>>

\* A loop that takes everything the server has sent into the buffer at once.
ReadLineWholeBuffer ==
    /\ read_pc = "loop"
    /\ IF consumed = Len(incoming)
       THEN /\ reply' = [kind |-> "Io", code |-> 0]
            /\ read_pc' = "idle"
            /\ UNCHANGED consumed
       ELSE LET parse == parse_response(SubSeq(incoming, started + 1, Len(incoming)))
            IN  /\ consumed' = Len(incoming)
                /\ CASE parse.kind = "Ok" ->
                          /\ reply' = ReadResponse(parse.code)
                          /\ read_pc' = "idle"
                     [] parse.kind = "Error" ->
                          /\ reply' = [kind |-> "Parsing", code |-> 0]
                          /\ read_pc' = "idle"
                     [] OTHER ->
                          UNCHANGED <<reply, read_pc>>
    /\ UNCHANGED <<incoming, started, reads>>
    /\ UNCHANGED <<engineVars, ehloVars, addressVars, envelopeVars, stubVars, potentialVars, pooledVars>>

\* One iteration of the loop (78-99): read_line appends the next line to the
\* buffer; at the end of the stream the loop is left and the Io error returned
\* (100-102); otherwise the whole buffer is parsed.
ReadLine ==
    /\ read_pc = "loop"
    /\ IF consumed = Len(incoming)
       THEN /\ reply' = [kind |-> "Io", code |-> 0]
            /\ read_pc' = "idle"
            /\ UNCHANGED consumed
       ELSE LET parse == parse_response(SubSeq(incoming, started + 1, consumed + 1))
            IN  /\ consumed' = consumed + 1
                /\ CASE parse.kind = "Ok" ->
                          /\ reply' = ReadResponse(parse.code)
                          /\ read_pc' = "idle"
                     [] parse.kind = "Error" ->
                          /\ reply' = [kind |-> "Parsing", code |-> 0]
                          /\ read_pc' = "idle"
                     [] OTHER ->
                          UNCHANGED <<reply, read_pc>>
    /\ UNCHANGED <<incoming, started, reads>>
    /\ UNCHANGED <<engineVars, ehloVars, addressVars, envelopeVars, stubVars, potentialVars, pooledVars>>

\* No stream is being read.
ReadIdle ==
    /\ incoming = <<>>
    /\ consumed = 0
    /\ started = 0
    /\ reply = NoReply
    /\ read_pc = "idle"
    /\ reads = 0

(***************************************************************************)
(* Potential and Lease (src/smtp/potential.rs)                             *)
(*                                                                         *)
(* The owner holds the Potential and calls as_mut, lease, take and         *)
(* map_present on it, one call at a time (they borrow it); the holder of   *)
(* the Lease runs concurrently.  Items are numbered: Lease::replace puts   *)
(* the next item in the place of the leased one.                           *)
(***************************************************************************)

\* Number of items Lease::replace can produce one after the other.
MaxItem == 4

\* Potential::Present(item), Potential::Eventual(receiver), Potential::Gone (8-15).
Present(item) == [state |-> "Present", item |-> item]

Eventual == [state |-> "Eventual", item |-> 0]

Gone == [state |-> "Gone", item |-> 0]

\* The value of an owner's call: Some(item) or None.
Some(call, item) == [call |-> call, some |-> TRUE, item |-> item]

None(call) == [call |-> call, some |-> FALSE, item |-> 0]

NoCall == [call |-> "none", some |-> FALSE, item |-> 0]

\* The oneshot channel of a lease: "open" while the Lease holds the sender,
\* "sent" once the item was sent, "closed" once the sender was dropped
\* without sending; "none" while there is no lease.
NoChannel == [state |-> "none", item |-> 0]

\* The Lease: Lease(Some(item), Some(sender)) (111-115).
LeaseNew(item) == [state |-> "held", item |-> item]

NoLease == [state |-> "none", item |-> 0]

\* Potential::as_mut (71-90): Gone gives None, Present the item; on Eventual
\* the receiver is awaited with the Potential left as it is.
AsMutCall ==
    /\ owner = "idle"
    /\ CASE potential.state = "Present" ->
              /\ yielded' = Some("as_mut", potential.item)
              /\ UNCHANGED owner
         [] potential.state = "Gone" ->
              /\ yielded' = None("as_mut")
              /\ UNCHANGED owner
         [] OTHER ->
              /\ owner' = "as_mut"
              /\ UNCHANGED yielded
    /\ UNCHANGED <<potential, lease, channel>>
    /\ UNCHANGED <<engineVars, ehloVars, addressVars, envelopeVars, stubVars, readVars, pooledVars>>

\* Potential::take (63-69): std::mem::take leaves Gone in the Potential at
\* once; Present gives the item, Gone None, and on Eventual the receiver, now
\* owned by the call, is awaited.
TakeCall ==
    /\ owner = "idle"
    /\ potential' = Gone
    /\ CASE potential.state = "Present" ->
              /\ yielded' = Some("take", potential.item)
              /\ UNCHANGED owner
         [] potential.state = "Gone" ->
              /\ yielded' = None("take")
              /\ UNCHANGED owner
         [] OTHER ->
              /\ owner' = "take"
              /\ UNCHANGED yielded
    /\ UNCHANGED <<lease, channel>>
    /\ UNCHANGED <<engineVars, ehloVars, addressVars, envelopeVars, stubVars, readVars, pooledVars>>

\* Potential::lease (52-61): take().await, then, with an item, a new oneshot
\* channel whose receiver goes into the Potential and whose sender into the
\* Lease.
LeaseCall ==
    /\ owner = "idle"
    /\ CASE potential.state = "Present" ->
              /\ potential' = Eventual
              /\ lease' = LeaseNew(potential.item)
              /\ channel' = [state |-> "open", item |-> 0]
              /\ yielded' = Some("lease", potential.item)
              /\ UNCHANGED owner
         [] potential.state = "Gone" ->
              /\ yielded' = None("lease")
              /\ UNCHANGED <<potential, lease, channel, owner>>
         [] OTHER ->
              /\ potential' = Gone
              /\ owner' = "lease"
              /\ UNCHANGED <<lease, channel, yielded>>
    /\ UNCHANGED <<engineVars, ehloVars, addressVars, envelopeVars, stubVars, readVars, pooledVars>>

\* Potential::map_present (93-101): no await; Eventual and Gone give None.
MapPresent ==
    /\ owner = "idle"
    /\ yielded' = IF potential.state = "Present"
                  THEN Some("map_present", potential.item)
                  ELSE None("map_present")
    /\ UNCHANGED <<potential, lease, channel, owner>>
    /\ UNCHANGED <<engineVars, ehloVars, addressVars, envelopeVars, stubVars, readVars, pooledVars>>

\* receiver.await.ok() of the call the owner is in resolves: with the item
\* once it was sent, with None once the sender was dropped.  as_mut stores
\* Present or Gone (80-87), lease makes the next Lease (55-59), take returns
\* (67).
Receive ==
    /\ owner # "idle"
    /\ channel.state \in {"sent", "closed"}
    /\ owner' = "idle"
    /\ IF channel.state = "sent"
       THEN /\ yielded' = Some(owner, channel.item)
            /\ CASE owner = "as_mut" ->
                      /\ potential' = Present(channel.item)
                      /\ channel' = NoChannel
                      /\ UNCHANGED lease
                 [] owner = "lease" ->
                      /\ potential' = Eventual
                      /\ lease' = LeaseNew(channel.item)
                      /\ channel' = [state |-> "open", item |-> 0]
                 [] OTHER ->
                      /\ channel' = NoChannel
                      /\ UNCHANGED <<potential, lease>>
       ELSE /\ yielded' = None(owner)
            /\ potential' = Gone
            /\ channel' = NoChannel
            /\ UNCHANGED lease
    /\ UNCHANGED <<engineVars, ehloVars, addressVars, envelopeVars, stubVars, readVars, pooledVars>>

\* Lease::replace (117-126) whose replacement succeeds: the Lease goes on with
\* the new item.
ReplaceOk ==
    /\ lease.state = "held"
    /\ lease.item < MaxItem
    /\ lease' = LeaseNew(lease.item + 1)
    /\ UNCHANGED <<potential, channel, owner, yielded>>
    /\ UNCHANGED <<engineVars, ehloVars, addressVars, envelopeVars, stubVars, readVars, pooledVars>>

\* Lease::replace whose replacement fails: the item was taken out (122) and
\* moved into the replacement, `?` (123) drops the Lease, and its drop finds no
\* item (143): the sender is dropped without a send.
ReplaceErr ==
    /\ lease.state = "held"
    /\ lease' = NoLease
    /\ channel' = [state |-> "closed", item |-> 0]
    /\ UNCHANGED <<potential, owner, yielded>>
    /\ UNCHANGED <<engineVars, ehloVars, addressVars, envelopeVars, stubVars, readVars, pooledVars>>

\* Drop for Lease (139-150) of a Lease that holds its item: the item is sent
\* to the owner.
LeaseDrop ==
    /\ lease.state = "held"
    /\ lease' = NoLease
    /\ channel' = [state |-> "sent", item |-> lease.item]
    /\ UNCHANGED <<potential, owner, yielded>>
    /\ UNCHANGED <<engineVars, ehloVars, addressVars, envelopeVars, stubVars, readVars, pooledVars>>

\* No Potential exists.
PotentialIdle ==
    /\ potential = Gone
    /\ lease = NoLease
    /\ channel = NoChannel
    /\ owner = "idle"
    /\ yielded = NoCall

(***************************************************************************)
(* The pooled SmtpTransport with its client in a Potential                 *)
(* (src/smtp/transport.rs, src/smtp/potential.rs, src/smtp/client/         *)
(* inner.rs, net.rs): connect, send_stream_with_timeout and close as the   *)
(* steps between their await points, and the SmtpStream they hand out.     *)
(* A command is written and its reply read in one step: the server         *)
(* answers every command, positively or not.  One InnerClient exists; it   *)
(* is where potential, lease and channel say.  The transport's functions   *)
(* are called while no SmtpStream is alive.                                *)
(***************************************************************************)

\* Number of calls of connect, send_stream and close on one transport.
MaxCalls == 3

\* Number of buffers written to one SmtpStream.
MaxWrites == 2

\* enum NetworkStream (net.rs:48-60).
NetworkStream == {"Tcp", "Tls", "Socks5Stream", "TlsSocks5Stream", "Mock"}

\* NetworkStream::is_encrypted (net.rs:302-312); InnerClient::is_encrypted
\* (inner.rs:106-111) gives false without a stream.
is_encrypted(s) == s \in {"Tls", "TlsSocks5Stream"}

\* NetworkStream::upgrade_tls (net.rs:288-300) when the handshake succeeds:
\* only a Tcp stream is wrapped, every other variant is returned as it is.
upgrade_tls(s) == IF s = "Tcp" THEN "Tls" ELSE s

\* The extensions of an EHLO reply the transport looks at: STARTTLS, and AUTH
\* with a mechanism of the client's authentication_mechanism list.
PooledFeatures == {"STARTTLS", "AUTH"}

\* server_info: None, or Some with the features of the last EHLO reply.
NoInfo == [some |-> FALSE, features |-> {}]

SomeInfo(features) == [some |-> TRUE, features |-> features]

\* An error value: its kind and the command whose reply or write it comes from.
Err(kind, cmd) == [kind |-> kind, cmd |-> cmd]

NoErr == [kind |-> "none", cmd |-> "none"]

\* No function of the transport is running.
NoTask == [fn |-> "none", pc |-> "idle", pending |-> NoErr, round |-> 0]

NoOutcome == [fn |-> "none", ok |-> FALSE, err |-> NoErr]

\* What one write put on the client's stream: the command or the part of the
\* body, the function that wrote it, the number of the buffer (0: none, or the
\* empty one), whether the stream was encrypted, and whether a positive reply
\* was read for it.
Written(cmd, by, n, positive) ==
    [cmd |-> cmd, by |-> by, n |-> n, encrypted |-> is_encrypted(inner.stream),
     positive |-> positive]

\* The running function returns.
Finish(ok, err) ==
    /\ task' = NoTask
    /\ outcome' = [fn |-> task.fn, ok |-> ok, err |-> err]

\* The receiver.await of as_mut, lease and take resolves (potential.rs:57, 67,
\* 80): at once unless the Potential is Eventual and the Lease still holds the
\* sender.
ClientReady == potential.state # "Eventual" \/ channel.state # "open"

\* ... and resolves with the item.
ClientSome ==
    \/ potential.state = "Present"
    \/ potential.state = "Eventual" /\ channel.state = "sent"

TheItem == IF potential.state = "Present" THEN potential.item ELSE channel.item

\* self.client() (transport.rs:77-79), Potential::as_mut (potential.rs:71-90).
Client ==
    /\ potential' = IF ClientSome THEN Present(TheItem) ELSE Gone
    /\ channel' = NoChannel
    /\ UNCHANGED lease

\* self.client.lease() that gives a Lease, kept by the caller (potential.rs:52-61).
ClientLease ==
    /\ potential' = Eventual
    /\ lease' = LeaseNew(TheItem)
    /\ channel' = [state |-> "open", item |-> 0]

\* self.client.lease() that gives None (potential.rs:54, 65-67).
ClientLeaseNone ==
    /\ potential' = Gone
    /\ channel' = NoChannel
    /\ UNCHANGED lease

\* The Lease held by the running function is dropped (potential.rs:139-150).
ClientLeaseDrop ==
    /\ lease' = NoLease
    /\ channel' = [state |-> "sent", item |-> lease.item]
    /\ UNCHANGED potential

\* self.client.lease() whose Lease is dropped before the next await point.
ClientLeaseAndDrop ==
    /\ potential' = Eventual
    /\ lease' = NoLease
    /\ channel' = [state |-> "sent", item |-> TheItem]

\* try_smtp!'s Err arm (transport.rs:51-57): the first failure sets panic and
\* calls close() with the error kept; with panic set the error is returned.
\* A Lease the function holds stays alive across the close().
TrySmtpFail(err) ==
    IF ~transport.panic
    THEN /\ transport' = [transport EXCEPT !.panic = TRUE]
         /\ task' = [task EXCEPT !.pc = "close", !.pending = err]
         /\ UNCHANGED outcome
    ELSE /\ Finish(FALSE, err)
         /\ UNCHANGED transport

\* connect() is called (transport.rs:129-133).  check_connection (103-126)
\* looks at the client with map_present, which gives None unless the Potential
\* is Present; the client of a new transport is not connected.
Connect ==
    /\ task.fn = "none"
    /\ smtp_stream.state = "none"
    /\ calls < MaxCalls
    /\ potential.state # "Present" \/ calls = 0
    /\ calls' = calls + 1
    /\ task' = [NoTask EXCEPT !.fn = "connect", !.pc = "lease"]
    /\ UNCHANGED <<transport, inner, network, outcome, smtp_stream, poll, accepts>>
    /\ UNCHANGED <<potential, lease, channel, owner, yielded>>
    /\ UNCHANGED otherVars

\* connect: self.client.lease().await.ok_or(Error::NoStream)? (134).
ConnectLease ==
    /\ task.fn = "connect" /\ task.pc = "lease"
    /\ ClientReady
    /\ IF ClientSome
       THEN /\ ClientLease
            /\ task' = [task EXCEPT !.pc = "stream"]
            /\ UNCHANGED outcome
       ELSE /\ ClientLeaseNone
            /\ Finish(FALSE, Err("NoStream", "none"))
    /\ UNCHANGED <<transport, inner, network, calls, smtp_stream, poll, accepts>>
    /\ UNCHANGED <<owner, yielded>>
    /\ UNCHANGED otherVars

\* connect / connect_with_stream: the stream is made and set (136-147, 168,
\* inner.rs:154-164): connect_with_stream refuses when the client has a stream;
\* making the stream may fail.  `?` drops the Lease.
ConnectWithStream ==
    /\ task.fn = "connect" /\ task.pc = "stream"
    /\ \E s \in NetworkStream \cup {"none"} :
         IF s = "none"
         THEN /\ Finish(FALSE, Err("Io", "connect"))
              /\ ClientLeaseDrop
              /\ UNCHANGED <<inner, network>>
         ELSE IF inner.stream # "none"
              THEN /\ Finish(FALSE, Err("Client", "connect"))
                   /\ ClientLeaseDrop
                   /\ UNCHANGED <<inner, network>>
              ELSE /\ inner' = [inner EXCEPT !.stream = s]
                   /\ network' = <<>>
                   /\ task' = [task EXCEPT !.pc = "greeting"]
                   /\ UNCHANGED <<outcome, potential, lease, channel>>
    /\ UNCHANGED <<transport, calls, smtp_stream, poll, accepts>>
    /\ UNCHANGED <<owner, yielded>>
    /\ UNCHANGED otherVars

\* connect: the greeting is read (149-153); the Lease is dropped at the end of
\* the block, or by `?`.
ConnectGreeting ==
    /\ task.fn = "connect" /\ task.pc = "greeting"
    /\ ClientLeaseDrop
    /\ \E positive \in BOOLEAN :
         IF positive
         THEN /\ task' = [task EXCEPT !.pc = "ehlo", !.round = 1]
              /\ UNCHANGED outcome
         ELSE Finish(FALSE, Err("Reply", "greeting"))
    /\ UNCHANGED <<transport, inner, network, calls, smtp_stream, poll, accepts>>
    /\ UNCHANGED <<owner, yielded>>
    /\ UNCHANGED otherVars

\* ehlo (260-280): self.command(EHLO) on self.client() (256-258), the reply
\* parsed, under try_smtp!; server_info is assigned on success.  try_tls
\* follows the first EHLO (95), try_login the one try_tls sends (97, 251).
Ehlo ==
    /\ task.fn = "connect" /\ task.pc = "ehlo"
    /\ ClientReady
    /\ Client
    /\ IF ~ClientSome
       THEN /\ TrySmtpFail(Err("NoStream", "EHLO"))
            /\ UNCHANGED network
       ELSE IF inner.stream = "none"
       THEN /\ TrySmtpFail(Err("Client", "EHLO"))
            /\ UNCHANGED network
       ELSE \E positive \in BOOLEAN, features \in SUBSET PooledFeatures :
            /\ network' = Append(network, Written("EHLO", "command", 0, positive))
            /\ IF positive
                 THEN /\ transport' = [transport EXCEPT !.server_info = SomeInfo(features)]
                      /\ task' = [task EXCEPT !.pc = IF task.round = 1 THEN "try_tls"
                                                     ELSE "try_login"]
                      /\ UNCHANGED outcome
                 ELSE TrySmtpFail(Err("Reply", "EHLO"))
    /\ UNCHANGED <<inner, calls, smtp_stream, poll, accepts>>
    /\ UNCHANGED <<owner, yielded>>
    /\ UNCHANGED otherVars

\* try_tls (223-243): the Lease is taken, then by the security configured and
\* the STARTTLS extension nothing is done, connect fails, or STARTTLS is sent
\* on the leased client under try_smtp!.
TryTlsCommand ==
    /\ task.fn = "connect" /\ task.pc = "try_tls"
    /\ ClientReady
    /\ LET security == transport.client_info.security
           offered == "STARTTLS" \in transport.server_info.features
           wanted == security \in {"Opportunistic", "Required"}
       IN  IF ~transport.server_info.some
           THEN /\ Finish(FALSE, Err("NoServerInfo", "none"))
                /\ UNCHANGED <<transport, network, potential, lease, channel>>
           ELSE IF ~ClientSome
           THEN /\ ClientLeaseNone
                /\ Finish(FALSE, Err("NoStream", "none"))
                /\ UNCHANGED <<transport, network>>
           ELSE IF security = "Required" /\ ~offered
           THEN /\ ClientLeaseAndDrop
                /\ Finish(FALSE, Err("Client", "none"))
                /\ UNCHANGED <<transport, network>>
           ELSE IF ~(wanted /\ offered)
           THEN /\ ClientLeaseAndDrop
                /\ task' = [task EXCEPT !.pc = "try_login"]
                /\ UNCHANGED <<transport, network, outcome>>
           ELSE \E positive \in BOOLEAN :
                /\ network' = Append(network, Written("STARTTLS", "command", 0, positive))
                /\ IF positive
                     THEN /\ ClientLease
                          /\ task' = [task EXCEPT !.pc = "upgrade"]
                          /\ UNCHANGED <<transport, outcome>>
                     ELSE /\ TrySmtpFail(Err("Reply", "STARTTLS"))
                          /\ IF transport.panic THEN ClientLeaseAndDrop ELSE ClientLease
    /\ UNCHANGED <<inner, calls, smtp_stream, poll, accepts>>
    /\ UNCHANGED <<owner, yielded>>
    /\ UNCHANGED otherVars

\* try_tls (244-251): client.replace(|c| c.upgrade_tls_stream(..)) (potential.rs:
\* 117-126, inner.rs:91-103, net.rs:288-300).  When the handshake fails the
\* client is gone with the Lease (potential.rs:123, 143); otherwise the Lease
\* replace returns is dropped at the end of the statement and EHLO is sent
\* again.
UpgradeTlsStream ==
    /\ task.fn = "connect" /\ task.pc = "upgrade"
    /\ \E handshake \in BOOLEAN :
         IF handshake \/ inner.stream # "Tcp"
         THEN /\ inner' = [inner EXCEPT !.stream = upgrade_tls(inner.stream)]
              /\ ClientLeaseDrop
              /\ task' = [task EXCEPT !.pc = "ehlo", !.round = 2]
              /\ UNCHANGED outcome
         ELSE /\ inner' = [inner EXCEPT !.stream = "none"]
              /\ lease' = NoLease
              /\ channel' = [state |-> "closed", item |-> 0]
              /\ UNCHANGED potential
              /\ Finish(FALSE, Err("Io", "upgrade_tls"))
    /\ UNCHANGED <<transport, network, calls, smtp_stream, poll, accepts>>
    /\ UNCHANGED <<owner, yielded>>
    /\ UNCHANGED otherVars

\* try_login (176-221) with force_set_auth false and the mechanisms given in
\* authentication_mechanism: nothing without credentials; else the Lease is
\* taken and, when the server advertises one of the mechanisms, AUTH is sent
\* on the leased client under try_smtp!.
TryLogin ==
    /\ task.fn = "connect" /\ task.pc = "try_login"
    /\ ClientReady
    /\ IF ~transport.client_info.credentials
       THEN /\ Finish(TRUE, NoErr)
            /\ UNCHANGED <<transport, network, potential, lease, channel>>
       ELSE IF ~ClientSome
       THEN /\ ClientLeaseNone
            /\ Finish(FALSE, Err("NoStream", "none"))
            /\ UNCHANGED <<transport, network>>
       ELSE IF ~transport.server_info.some
       THEN /\ ClientLeaseAndDrop
            /\ Finish(FALSE, Err("NoServerInfo", "none"))
            /\ UNCHANGED <<transport, network>>
       ELSE IF "AUTH" \notin transport.server_info.features
       THEN /\ ClientLeaseAndDrop
            /\ Finish(TRUE, NoErr)
            /\ UNCHANGED <<transport, network>>
       ELSE \E positive \in BOOLEAN :
            /\ network' = Append(network, Written("AUTH", "command", 0, positive))
            /\ IF positive
                 THEN /\ ClientLeaseAndDrop
                      /\ Finish(TRUE, NoErr)
                      /\ UNCHANGED transport
                 ELSE /\ TrySmtpFail(Err("Reply", "AUTH"))
                      /\ IF transport.panic THEN ClientLeaseAndDrop ELSE ClientLease
    /\ UNCHANGED <<inner, calls, smtp_stream, poll, accepts>>
    /\ UNCHANGED <<owner, yielded>>
    /\ UNCHANGED otherVars

\* close() is called by the user (283).
Close ==
    /\ task.fn = "none"
    /\ smtp_stream.state = "none"
    /\ calls < MaxCalls
    /\ calls' = calls + 1
    /\ task' = [NoTask EXCEPT !.fn = "close", !.pc = "close"]
    /\ UNCHANGED <<transport, inner, network, outcome, smtp_stream, poll, accepts>>
    /\ UNCHANGED <<potential, lease, channel, owner, yielded>>
    /\ UNCHANGED otherVars

\* close() (283-292), called by the user or by try_smtp! (54): self.client()
\* awaits the client, InnerClient::close (inner.rs:79-84) sends QUIT and on a
\* positive reply drops the stream, then server_info and panic are reset.
\* try_smtp! returns close()'s error if it has one (`?`), else the error kept.
CloseQuit ==
    /\ task.pc = "close"
    /\ ClientReady
    /\ Client
    /\ IF ~ClientSome
       THEN /\ Finish(FALSE, Err("NoStream", "QUIT"))
            /\ UNCHANGED <<transport, inner, network>>
       ELSE IF inner.stream = "none"
       THEN /\ Finish(FALSE, Err("Client", "QUIT"))
            /\ UNCHANGED <<transport, inner, network>>
       ELSE \E positive \in BOOLEAN :
            /\ network' = Append(network, Written("QUIT", "command", 0, positive))
            /\ IF positive
                 THEN /\ inner' = [inner EXCEPT !.stream = "none"]
                      /\ transport' = [transport EXCEPT !.server_info = NoInfo,
                                                        !.panic = FALSE]
                      /\ IF task.pending = NoErr
                         THEN Finish(TRUE, NoErr)
                         ELSE Finish(FALSE, task.pending)
                 ELSE /\ Finish(FALSE, Err("Reply", "QUIT"))
                      /\ UNCHANGED <<transport, inner>>
    /\ UNCHANGED <<calls, smtp_stream, poll, accepts>>
    /\ UNCHANGED <<owner, yielded>>
    /\ UNCHANGED otherVars

\* SmtpStream::new (386-393): SmtpStream::Ready around the Lease.  fut tells
\* whether the boxed future of Encoding or Closing has completed, buf is the
\* buffer the Encoding future encodes, ok the result held by Done.
NoSmtpStream == [state |-> "none", fut |-> "none", buf |-> 0, ok |-> FALSE]

SmtpStreamNew == [NoSmtpStream EXCEPT !.state = "Ready"]

NoPoll == [fn |-> "none", buf |-> 0, last |-> "none", value |-> "none"]

\* The poll in progress returns.
PollReturn(value) == [NoPoll EXCEPT !.last = poll.fn, !.value = value]

\* send_stream_with_timeout is called (315-329).
SendStream ==
    /\ task.fn = "none"
    /\ smtp_stream.state = "none"
    /\ calls < MaxCalls
    /\ calls' = calls + 1
    /\ task' = [NoTask EXCEPT !.fn = "send_stream", !.pc = "client"]
    /\ UNCHANGED <<transport, inner, network, outcome, smtp_stream, poll, accepts>>
    /\ UNCHANGED <<potential, lease, channel, owner, yielded>>
    /\ UNCHANGED otherVars

\* send_stream_with_timeout: let mut client = self.client().await? (331).
SendStreamClient ==
    /\ task.fn = "send_stream" /\ task.pc = "client"
    /\ ClientReady
    /\ Client
    /\ IF ClientSome
       THEN /\ task' = [task EXCEPT !.pc = "MAIL"]
            /\ UNCHANGED outcome
       ELSE Finish(FALSE, Err("NoStream", "none"))
    /\ UNCHANGED <<transport, inner, network, calls, smtp_stream, poll, accepts>>
    /\ UNCHANGED <<owner, yielded>>
    /\ UNCHANGED otherVars

\* send_stream_with_timeout: MAIL, RCPT for the one recipient, DATA, each under
\* try_smtp! (333-358; InnerClient::write refuses without a stream, inner.rs:
\* 270-272); after DATA the client is leased into the new SmtpStream (360-364).
SendStreamCommand ==
    /\ task.fn = "send_stream" /\ task.pc \in {"MAIL", "RCPT", "DATA"}
    /\ IF inner.stream = "none"
       THEN /\ TrySmtpFail(Err("Client", task.pc))
            /\ UNCHANGED <<network, smtp_stream, potential, lease, channel>>
       ELSE \E positive \in BOOLEAN :
            /\ network' = Append(network, Written(task.pc, "command", 0, positive))
            /\ IF ~positive
                 THEN /\ TrySmtpFail(Err("Reply", task.pc))
                      /\ UNCHANGED <<smtp_stream, potential, lease, channel>>
                 ELSE IF task.pc = "DATA"
                 THEN /\ ClientLease
                      /\ smtp_stream' = SmtpStreamNew
                      /\ Finish(TRUE, NoErr)
                      /\ UNCHANGED transport
                 ELSE /\ task' = [task EXCEPT !.pc = IF task.pc = "MAIL" THEN "RCPT"
                                                     ELSE "DATA"]
                      /\ UNCHANGED <<transport, outcome, smtp_stream, potential, lease,
                                     channel>>
    /\ UNCHANGED <<inner, calls, poll, accepts>>
    /\ UNCHANGED <<owner, yielded>>
    /\ UNCHANGED otherVars

\* What a poll of the boxed future and of the underlying stream can give.  For
\* the Closing future "Ok" and "Reject" are a positive and a negative final
\* reply, "Err" an I/O error before anything is written.
FutureOutcomes == {"Pending", "Ok", "Err", "Reject"}

IoOutcomes == {"Pending", "Ok", "Err"}

\* One iteration of the loop of poll_flush (448-472) on the stream ss, with
\* fut what polling the boxed future gives and io what flushing the underlying
\* stream gives.  again: the iteration ends in `continue`; wrote: what the
\* future put on the stream; dropped: the future ended and dropped the Lease
\* it had captured (the async blocks of 420-431 and 490-519).
FlushStep(ss, fut, io) ==
    LET ret(value) == [stream |-> ss, again |-> FALSE, value |-> value, wrote |-> <<>>,
                       dropped |-> FALSE]
    IN  IF ss.state = "Ready"
        THEN ret(IF inner.stream = "none" THEN "Err" ELSE io)
        ELSE IF ss.state = "Encoding"
        THEN IF ss.fut = "completed"
             THEN ret("panic")
             ELSE IF fut = "Pending"
             THEN ret("Pending")
             ELSE IF fut = "Ok" /\ inner.stream # "none"
             THEN [stream |-> SmtpStreamNew, again |-> TRUE, value |-> "none",
                   wrote |-> <<Written(IF ss.buf = 0 THEN "END" ELSE "BODY",
                                       "poll_write", ss.buf, FALSE)>>,
                   dropped |-> FALSE]
             ELSE [stream |-> [ss EXCEPT !.fut = "completed"], again |-> FALSE,
                   value |-> "Err", wrote |-> <<>>, dropped |-> TRUE]
        ELSE IF ss.state = "Closing"
        THEN IF fut = "Pending"
             THEN ret("Pending")
             ELSE IF fut \in {"Ok", "Reject"} /\ inner.stream # "none"
             THEN [stream |-> [NoSmtpStream EXCEPT !.state = "Done", !.ok = (fut = "Ok")],
                   again |-> TRUE, value |-> "none",
                   wrote |-> <<Written("END", "poll_close", 0, fut = "Ok")>>,
                   dropped |-> TRUE]
             ELSE [stream |-> [NoSmtpStream EXCEPT !.state = "Done", !.ok = FALSE],
                   again |-> TRUE, value |-> "none", wrote |-> <<>>, dropped |-> TRUE]
        ELSE IF ss.state = "Done"
        THEN ret(IF ss.ok THEN "Ok" ELSE "Err")
        ELSE ret("Err")

\* poll_flush (444-473): the iterations of its loop up to the return.
RECURSIVE Flush(_, _, _)
Flush(ss, fut, io) ==
    LET first == FlushStep(ss, fut, io)
    IN  IF ~first.again
        THEN first
        ELSE LET rest == Flush(first.stream, fut, io)
             IN  [rest EXCEPT !.wrote = first.wrote \o rest.wrote,
                              !.dropped = first.dropped \/ rest.dropped]

\* The effect of a poll_flush on the stream, the wire and the Lease.
Flushed(r) ==
    /\ smtp_stream' = r.stream
    /\ network' = network \o r.wrote
    /\ IF r.dropped /\ lease.state = "held"
       THEN ClientLeaseDrop
       ELSE UNCHANGED <<potential, lease, channel>>

\* poll_write, poll_flush or poll_close is called on the SmtpStream.  A buffer
\* is the empty one (0) or the next of the non-empty ones.
PollCall ==
    /\ poll.fn = "none"
    /\ smtp_stream.state # "none"
    /\ \E fn \in {"poll_write", "poll_flush", "poll_close"} :
         \E buf \in {0, Len(accepts) + 1} :
              /\ fn = "poll_write" \/ buf = 0
              /\ fn = "poll_write" => Len(accepts) < MaxWrites
              /\ poll' = [poll EXCEPT !.fn = fn, !.buf = buf]
    /\ UNCHANGED <<transport, inner, task, network, outcome, calls, smtp_stream, accepts>>
    /\ UNCHANGED <<potential, lease, channel, owner, yielded>>
    /\ UNCHANGED otherVars

\* One iteration of the loop of poll_write (411-441): on Ready the buffer goes
\* into a new Encoding future and is reported written; otherwise poll_flush is
\* polled, Pending and errors are returned, and on Ok the loop goes on.
PollWriteLoop ==
    /\ poll.fn = "poll_write"
    /\ IF smtp_stream.state = "Ready"
       THEN /\ smtp_stream' = [smtp_stream EXCEPT !.state = "Encoding", !.fut = "new",
                                                  !.buf = poll.buf]
            /\ accepts' = Append(accepts, poll.buf)
            /\ poll' = PollReturn("Ok")
            /\ UNCHANGED <<network, potential, lease, channel>>
       ELSE \E fut \in FutureOutcomes \ {"Reject"}, io \in IoOutcomes :
              LET r == Flush(smtp_stream, fut, io)
              IN  /\ Flushed(r)
                  /\ poll' = IF r.value = "Ok" THEN poll ELSE PollReturn(r.value)
                  /\ UNCHANGED accepts
    /\ UNCHANGED <<transport, inner, task, outcome, calls>>
    /\ UNCHANGED <<owner, yielded>>
    /\ UNCHANGED otherVars

\* poll_flush called by the user (444-473).
PollFlush ==
    /\ poll.fn = "poll_flush"
    /\ \E fut \in FutureOutcomes, io \in IoOutcomes :
         LET r == Flush(smtp_stream, fut, io)
         IN  /\ smtp_stream.state = "Encoding" => fut # "Reject"
             /\ Flushed(r)
             /\ poll' = PollReturn(r.value)
    /\ UNCHANGED <<transport, inner, task, outcome, calls, accepts>>
    /\ UNCHANGED <<owner, yielded>>
    /\ UNCHANGED otherVars

\* poll_close as it would be if it went to Closing from Encoding as from
\* Ready, without polling the encoding future first.
PollCloseEager ==
    /\ poll.fn = "poll_close"
    /\ IF smtp_stream.state \in {"Ready", "Encoding"}
       THEN /\ smtp_stream' = [smtp_stream EXCEPT !.state = "Closing", !.fut = "new"]
            /\ UNCHANGED <<poll, network, potential, lease, channel>>
       ELSE \E fut \in FutureOutcomes, io \in IoOutcomes :
              LET r == Flush(smtp_stream, fut, io)
              IN  /\ Flushed(r)
                  /\ poll' = IF r.value = "Ok" /\ smtp_stream.state = "Closing"
                             THEN poll
                             ELSE PollReturn(r.value)
    /\ UNCHANGED <<transport, inner, task, outcome, calls, accepts>>
    /\ UNCHANGED <<owner, yielded>>
    /\ UNCHANGED otherVars

\* One iteration of the loop of poll_close (483-532): Ready becomes Closing
\* with a new future and the loop goes on; on Encoding and Closing poll_flush
\* is polled, Pending and errors are returned, and on Ok the loop goes on; on
\* Done and Busy what poll_flush gives is returned.
PollCloseLoop ==
    /\ poll.fn = "poll_close"
    /\ IF smtp_stream.state = "Ready"
       THEN /\ smtp_stream' = [smtp_stream EXCEPT !.state = "Closing", !.fut = "new"]
            /\ UNCHANGED <<poll, network, potential, lease, channel>>
       ELSE \E fut \in FutureOutcomes, io \in IoOutcomes :
              LET r == Flush(smtp_stream, fut, io)
              IN  /\ smtp_stream.state = "Encoding" => fut # "Reject"
                  /\ Flushed(r)
                  /\ poll' = IF r.value = "Ok" /\ smtp_stream.state \in {"Encoding", "Closing"}
                             THEN poll
                             ELSE PollReturn(r.value)
    /\ UNCHANGED <<transport, inner, task, outcome, calls, accepts>>
    /\ UNCHANGED <<owner, yielded>>
    /\ UNCHANGED otherVars

\* The SmtpStream is dropped, or consumed by result() (398-403): the Lease in
\* it, or in its unfinished future, goes back to the transport (potential.rs:
\* 139-150).  result() gives Done's result, else the Client error.
StreamDrop ==
    /\ poll.fn = "none"
    /\ smtp_stream.state # "none"
    /\ \E fn \in {"drop", "result"} :
         poll' = [NoPoll EXCEPT !.last = fn,
                                !.value = IF fn = "drop" THEN "none"
                                          ELSE IF smtp_stream.state = "Done"
                                          THEN (IF smtp_stream.ok THEN "Ok" ELSE "Err")
                                          ELSE "Client"]
    /\ smtp_stream' = NoSmtpStream
    /\ accepts' = <<>>
    /\ IF lease.state = "held"
       THEN ClientLeaseDrop
       ELSE UNCHANGED <<potential, lease, channel>>
    /\ UNCHANGED <<transport, inner, task, network, outcome, calls>>
    /\ UNCHANGED <<owner, yielded>>
    /\ UNCHANGED otherVars

\* No pooled transport exists.
PooledIdle ==
    /\ transport = [panic |-> FALSE, server_info |-> NoInfo,
                    client_info |-> [security |-> "None", credentials |-> FALSE]]
    /\ inner = [stream |-> "none"]
    /\ task = NoTask
    /\ network = <<>>
    /\ outcome = NoOutcome
    /\ calls = 0
    /\ smtp_stream = NoSmtpStream
    /\ poll = NoPoll
    /\ accepts = <<>>

\* The state of the parts no transport is involved in.
LibraryInit ==
    /\ EhloIdle
    /\ AddressIdle
    /\ EnvelopeIdle
    /\ StubIdle
    /\ ReadIdle
    /\ PotentialIdle
    /\ PooledIdle

\* No codec, transport or connection exists: the state of the variables of the
\* engines while a function that needs none of them is exercised.
NoEngine ==
    /\ body = <<>>
    /\ pos = 0
    /\ codec = ClientCodecNew
    /\ out = <<>>
    /\ cuts = {}
    /\ wire = <<>>
    /\ mstate = "idle"
    /\ server_info = {}
    /\ client_info = [pipelining |-> FALSE, smtp_utf8 |-> FALSE]
    /\ sent = <<>>
    /\ nread = 0
    /\ op = "none"
    /\ pc = "idle"
    /\ to = 0
    /\ step = 0
    /\ sent_commands = 0
    /\ challenges = 0
    /\ response = 0
    /\ result = NoResult
    /\ pipelined = FALSE
    /\ ops = 0
    /\ base = 0
    /\ nread0 = 0
    /\ failed = FALSE
    /\ panic = FALSE
    /\ stream = "none"
    /\ has_info = FALSE
    /\ pending = NoResult
    /\ timed_out = 0
    /\ accepted_mechanisms = <<>>
    /\ mail_options = {}
    /\ ehlo_response = NoEhlo
    /\ engine = "unopened"

(***************************************************************************)
(* Specifications                                                          *)
(***************************************************************************)

\* The codec and the data phase on every body up to MaxBody bytes; no dialogue.
CodecInit ==
    /\ body \in Bodies
    /\ pos = 0
    /\ codec = ClientCodecNew
    /\ out = <<>>
    /\ cuts = {}
    /\ wire = <<>>
    /\ mstate = "idle"
    /\ server_info = {}
    /\ client_info = [pipelining |-> FALSE, smtp_utf8 |-> FALSE]
    /\ sent = <<>>
    /\ nread = 0
    /\ op = "none"
    /\ pc = "idle"
    /\ to = 0
    /\ step = 0
    /\ sent_commands = 0
    /\ challenges = 0
    /\ response = 0
    /\ result = NoResult
    /\ pipelined = FALSE
    /\ ops = 0
    /\ base = 0
    /\ nread0 = 0
    /\ failed = FALSE
    /\ panic = FALSE
    /\ stream = "open"
    /\ has_info = TRUE
    /\ pending = NoResult
    /\ timed_out = 0
    /\ LibraryInit
    /\ accepted_mechanisms = <<>>
    /\ mail_options = {}
    /\ ehlo_response = NoEhlo
    /\ engine = "held"

CodecNext == EncodeChunk \/ Message

SpecCodec == CodecInit /\ [][CodecNext]_vars

\* A transport as SmtpTransport::new leaves it: the EHLO reply was read, no
\* command is outstanding, server_info holds what the server advertised.
DialogueInit ==
    /\ body = <<>>
    /\ pos = 0
    /\ codec = ClientCodecNew
    /\ out = <<>>
    /\ cuts = {}
    /\ wire = <<>>
    /\ mstate = "idle"
    /\ server_info \in SUBSET {"PIPELINING", "8BITMIME", "SMTPUTF8"}
    /\ client_info \in [pipelining : BOOLEAN, smtp_utf8 : BOOLEAN]
    /\ sent = <<>>
    /\ nread = 0
    /\ op = "none"
    /\ pc = "idle"
    /\ to = 0
    /\ step = 0
    /\ sent_commands = 0
    /\ challenges = 0
    /\ response = 0
    /\ result = NoResult
    /\ pipelined = FALSE
    /\ ops = 0
    /\ base = 0
    /\ nread0 = 0
    /\ failed = FALSE
    /\ panic = FALSE
    /\ stream = "open"
    /\ has_info = TRUE
    /\ pending = NoResult
    /\ timed_out = 0
    /\ LibraryInit
    /\ accepted_mechanisms = <<>>
    /\ mail_options = {}
    /\ ehlo_response = NoEhlo
    /\ engine = "held"

SendNext ==
    \/ SendBegin
    \/ PipelinedMail
    \/ PipelinedRcpt
    \/ PipelinedData
    \/ PipelinedRead
    \/ CommandWrite
    \/ CommandRead
    \/ MessageWrite
    \/ MessageRead
    \/ QuitWrite
    \/ QuitRead

\* send and quit on one SmtpTransport.
SpecSend == DialogueInit /\ [][SendNext]_vars

AuthNext ==
    \/ AuthBegin
    \/ AuthRead
    \/ AuthChallenge
    \/ AuthFinish

\* auth on one SmtpTransport.
SpecAuth == DialogueInit /\ [][AuthNext]_vars

\* A transport as SmtpTransport::new leaves it, with any set of the AUTH
\* mechanisms advertised in the EHLO reply.
LoginInit ==
    /\ body = <<>>
    /\ pos = 0
    /\ codec = ClientCodecNew
    /\ out = <<>>
    /\ cuts = {}
    /\ wire = <<>>
    /\ mstate = "idle"
    /\ server_info \in SUBSET {Authentication(m) : m \in Mechanisms}
    /\ client_info = [pipelining |-> FALSE, smtp_utf8 |-> FALSE]
    /\ sent = <<>>
    /\ nread = 0
    /\ op = "none"
    /\ pc = "idle"
    /\ to = 0
    /\ step = 0
    /\ sent_commands = 0
    /\ challenges = 0
    /\ response = 0
    /\ result = NoResult
    /\ pipelined = FALSE
    /\ ops = 0
    /\ base = 0
    /\ nread0 = 0
    /\ failed = FALSE
    /\ panic = FALSE
    /\ stream = "open"
    /\ has_info = TRUE
    /\ pending = NoResult
    /\ timed_out = 0
    /\ LibraryInit
    /\ accepted_mechanisms = <<>>
    /\ mail_options = {}
    /\ ehlo_response = NoEhlo
    /\ engine = "held"

LoginNext ==
    \/ TryLoginBegin
    \/ AuthRead
    \/ AuthChallenge
    \/ AuthFinish

\* try_login on one SmtpTransport.
SpecLogin == LoginInit /\ [][LoginNext]_vars

\* A transport as SmtpTransport::new leaves it, the server advertising STARTTLS
\* or not.
StartTlsInit ==
    /\ body = <<>>
    /\ pos = 0
    /\ codec = ClientCodecNew
    /\ out = <<>>
    /\ cuts = {}
    /\ wire = <<>>
    /\ mstate = "idle"
    /\ server_info \in SUBSET {"STARTTLS", "PIPELINING"}
    /\ client_info \in [pipelining : BOOLEAN, smtp_utf8 : {FALSE}]
    /\ sent = <<>>
    /\ nread = 0
    /\ op = "none"
    /\ pc = "idle"
    /\ to = 0
    /\ step = 0
    /\ sent_commands = 0
    /\ challenges = 0
    /\ response = 0
    /\ result = NoResult
    /\ pipelined = FALSE
    /\ ops = 0
    /\ base = 0
    /\ nread0 = 0
    /\ failed = FALSE
    /\ panic = FALSE
    /\ stream = "open"
    /\ has_info = TRUE
    /\ pending = NoResult
    /\ timed_out = 0
    /\ LibraryInit
    /\ accepted_mechanisms = <<>>
    /\ mail_options = {}
    /\ ehlo_response = NoEhlo
    /\ engine = "held"

StartTlsNext ==
    \/ StarttlsBegin
    \/ StarttlsRead
    \/ SendBegin
    \/ PipelinedMail
    \/ PipelinedRcpt
    \/ PipelinedData
    \/ PipelinedRead
    \/ CommandWrite
    \/ CommandRead
    \/ MessageWrite
    \/ MessageRead
    \/ QuitWrite
    \/ QuitRead

\* starttls, send and quit on one SmtpTransport.
SpecStartTls == StartTlsInit /\ [][StartTlsNext]_vars

\* Before SmtpTransport::new: a stream on which the server has sent its greeting
\* (the reply before the first command: nread = -1) or sends none, and a builder
\* with or without expect_greeting.
OpenInit ==
    /\ body = <<>>
    /\ pos = 0
    /\ codec = ClientCodecNew
    /\ out = <<>>
    /\ cuts = {}
    /\ wire = <<>>
    /\ mstate = "idle"
    /\ server_info = {}
    /\ client_info \in [pipelining : {FALSE}, expect_greeting : BOOLEAN, hello_name : ClientIds]
    /\ sent = <<>>
    /\ nread \in {-1, 0}
    /\ op = "none"
    /\ pc = "idle"
    /\ to = 0
    /\ step = 0
    /\ sent_commands = 0
    /\ challenges = 0
    /\ response = 0
    /\ result = NoResult
    /\ pipelined = FALSE
    /\ ops = 0
    /\ base = 0
    /\ nread0 = 0
    /\ failed = FALSE
    /\ panic = FALSE
    /\ stream = "open"
    /\ has_info = TRUE
    /\ pending = NoResult
    /\ timed_out = 0
    /\ LibraryInit
    /\ accepted_mechanisms = <<>>
    /\ mail_options = {}
    /\ ehlo_response = NoEhlo
    /\ engine = "unopened"

OpenNext ==
    \/ OpenBegin
    \/ OpenGreetingRead
    \/ OpenEhloWrite
    \/ OpenEhloRead
    \/ QuitWrite
    \/ QuitRead

\* SmtpTransport::new, then quit.
SpecOpen == OpenInit /\ [][OpenNext]_vars

\* A pooled transport after connect(): the stream is open, the EHLO reply was
\* read, nothing is outstanding.
TransportInit ==
    /\ body = <<>>
    /\ pos = 0
    /\ codec = ClientCodecNew
    /\ out = <<>>
    /\ cuts = {}
    /\ wire = <<>>
    /\ mstate = "idle"
    /\ server_info = {}
    /\ client_info = [pipelining |-> FALSE, smtp_utf8 |-> FALSE]
    /\ sent = <<>>
    /\ nread = 0
    /\ op = "none"
    /\ pc = "idle"
    /\ to = 0
    /\ step = 0
    /\ sent_commands = 0
    /\ challenges = 0
    /\ response = 0
    /\ result = NoResult
    /\ pipelined = FALSE
    /\ ops = 0
    /\ base = 0
    /\ nread0 = 0
    /\ failed = FALSE
    /\ panic = FALSE
    /\ stream = "open"
    /\ has_info = TRUE
    /\ pending = NoResult
    /\ timed_out = 0
    /\ LibraryInit
    /\ accepted_mechanisms = <<>>
    /\ mail_options = {}
    /\ ehlo_response = NoEhlo
    /\ engine = "held"

TransportNext ==
    \/ StreamSendBegin
    \/ StreamCommandWrite
    \/ StreamCommandRead
    \/ StreamBodyWrite
    \/ StreamBodyRead
    \/ CloseBegin
    \/ CloseWrite
    \/ CloseRead

\* send and close on one pooled SmtpTransport.
SpecTransport == TransportInit /\ [][TransportNext]_vars

\* A pooled transport as SmtpTransport::new leaves it (transport.rs:66-73): not
\* connected, no server_info.  The server greets (the reply before the first
\* command: nread = -1).
TlsInit ==
    /\ body = <<>>
    /\ pos = 0
    /\ codec = ClientCodecNew
    /\ out = <<>>
    /\ cuts = {}
    /\ wire = <<>>
    /\ mstate = "idle"
    /\ server_info = {}
    /\ client_info \in [pipelining : {FALSE}, smtp_utf8 : {FALSE},
                        hello_name : {ClientIdNew("localhost")},
                        security : {"None", "Opportunistic", "Required"}]
    /\ sent = <<>>
    /\ nread = -1
    /\ op = "none"
    /\ pc = "idle"
    /\ to = 0
    /\ step = 0
    /\ sent_commands = 0
    /\ challenges = 0
    /\ response = 0
    /\ result = NoResult
    /\ pipelined = FALSE
    /\ ops = 0
    /\ base = 0
    /\ nread0 = 0
    /\ failed = FALSE
    /\ panic = FALSE
    /\ stream = "none"
    /\ has_info = FALSE
    /\ pending = NoResult
    /\ timed_out = 0
    /\ LibraryInit
    /\ accepted_mechanisms = <<>>
    /\ mail_options = {}
    /\ ehlo_response = NoEhlo
    /\ engine = "held"

TlsNext ==
    \/ ConnectBegin
    \/ ConnectGreetingRead
    \/ EhloWrite
    \/ EhloRead
    \/ TryTls
    \/ TryTlsRead
    \/ StreamSendBegin
    \/ StreamCommandWrite
    \/ StreamCommandRead
    \/ StreamBodyWrite
    \/ StreamBodyRead
    \/ CloseBegin
    \/ CloseWrite
    \/ CloseRead

\* connect, then send and close, on one pooled SmtpTransport.
SpecTls == TlsInit /\ [][TlsNext]_vars

\* A pooled transport after connect(), built for either runtime, whose caller
\* gives every send a deadline.
TimeoutInit ==
    /\ body = <<>>
    /\ pos = 0
    /\ codec = ClientCodecNew
    /\ out = <<>>
    /\ cuts = {}
    /\ wire = <<>>
    /\ mstate = "idle"
    /\ server_info = {}
    /\ client_info \in [pipelining : {FALSE}, smtp_utf8 : {FALSE}, runtime : Runtimes]
    /\ sent = <<>>
    /\ nread = 0
    /\ op = "none"
    /\ pc = "idle"
    /\ to = 0
    /\ step = 0
    /\ sent_commands = 0
    /\ challenges = 0
    /\ response = 0
    /\ result = NoResult
    /\ pipelined = FALSE
    /\ ops = 0
    /\ base = 0
    /\ nread0 = 0
    /\ failed = FALSE
    /\ panic = FALSE
    /\ stream = "open"
    /\ has_info = TRUE
    /\ pending = NoResult
    /\ timed_out = 0
    /\ LibraryInit
    /\ accepted_mechanisms = <<>>
    /\ mail_options = {}
    /\ ehlo_response = NoEhlo
    /\ engine = "held"

TimeoutNext ==
    \/ StreamSendBegin
    \/ StreamCommandWrite
    \/ StreamCommandRead
    \/ CommandTimeout
    \/ StreamBodyWrite
    \/ StreamBodyRead
    \/ CloseBegin
    \/ CloseWrite
    \/ CloseRead

\* send with a deadline, and close, on one pooled SmtpTransport.
SpecTimeout == TimeoutInit /\ [][TimeoutNext]_vars

\* from_response on every reply of up to MaxLines lines of up to MaxTokens tokens.
EhloInit ==
    /\ NoEngine
    /\ PooledIdle
    /\ PotentialIdle
    /\ message \in Messages
    /\ parsed = NoParse
    /\ AddressIdle
    /\ EnvelopeIdle
    /\ StubIdle
    /\ ReadIdle

EhloNext ==
    \/ FromResponseCall

SpecEhlo == EhloInit /\ [][EhloNext]_vars

\* EmailAddress::new on every string of up to MaxAddress characters, and the
\* commands formatted with the addresses it accepts.
AddressInit ==
    /\ NoEngine
    /\ PooledIdle
    /\ PotentialIdle
    /\ EhloIdle
    /\ address \in Addresses
    /\ email_address = NoAddress
    /\ command = <<>>
    /\ EnvelopeIdle
    /\ StubIdle
    /\ ReadIdle

AddressNext ==
    \/ NewAddress
    \/ FormatMail
    \/ FormatRcpt

SpecAddress == AddressInit /\ [][AddressNext]_vars

\* An opened SmtpTransport, with or without PIPELINING, and a caller that
\* builds an envelope from any list of up to MaxRcpt recipients and sends it.
EnvelopeInit ==
    /\ body = <<>>
    /\ PooledIdle
    /\ PotentialIdle
    /\ pos = 0
    /\ codec = ClientCodecNew
    /\ out = <<>>
    /\ cuts = {}
    /\ wire = <<>>
    /\ mstate = "idle"
    /\ server_info \in SUBSET {"PIPELINING"}
    /\ client_info \in [pipelining : {TRUE}, smtp_utf8 : {FALSE}]
    /\ sent = <<>>
    /\ nread = 0
    /\ op = "none"
    /\ pc = "idle"
    /\ to = 0
    /\ step = 0
    /\ sent_commands = 0
    /\ challenges = 0
    /\ response = 0
    /\ result = NoResult
    /\ pipelined = FALSE
    /\ ops = 0
    /\ base = 0
    /\ nread0 = 0
    /\ failed = FALSE
    /\ panic = FALSE
    /\ stream = "open"
    /\ has_info = TRUE
    /\ pending = NoResult
    /\ timed_out = 0
    /\ EhloIdle
    /\ AddressIdle
    /\ recipients \in SeqsUpTo(RecipientAddresses, MaxRcpt)
    /\ envelope = NoEnvelope
    /\ StubIdle
    /\ ReadIdle
    /\ accepted_mechanisms = <<>>
    /\ mail_options = {}
    /\ ehlo_response = NoEhlo
    /\ engine = "held"

EnvelopeNext ==
    \/ NewEnvelope
    \/ SendEnvelope
    \/ PipelinedMail
    \/ PipelinedRcpt
    \/ PipelinedData
    \/ PipelinedRead
    \/ CommandWrite
    \/ CommandRead
    \/ MessageWrite
    \/ MessageRead

SpecEnvelope == EnvelopeInit /\ [][EnvelopeNext]_vars

\* A StubTransport as new(Err("fail".into())) or new_positive() leaves it, and
\* an email with any message of up to MaxBody bytes, sent up to MaxSends times.
StubInit ==
    /\ NoEngine
    /\ PooledIdle
    /\ PotentialIdle
    /\ EhloIdle
    /\ AddressIdle
    /\ EnvelopeIdle
    /\ given \in {StubOk, StubFail}
    /\ responses = StubTransportNew(given)
    /\ email \in Bodies
    /\ copied = 0
    /\ stub_stream = NoStubResult
    /\ stub_pc = "idle"
    /\ stub_sends = 0
    /\ stub_result = NoStubResult
    /\ ReadIdle

StubNext ==
    \/ StubSendStream
    \/ StubWrite
    \/ StubClose
    \/ StubStreamResult

SpecStub == StubInit /\ [][StubNext]_vars

\* A new SmtpStream over a connection on which the server sends up to
\* MaxIncoming lines and closes; read_response is called up to MaxReads times.
ReadInit ==
    /\ NoEngine
    /\ PooledIdle
    /\ PotentialIdle
    /\ EhloIdle
    /\ AddressIdle
    /\ EnvelopeIdle
    /\ StubIdle
    /\ incoming \in Incoming
    /\ consumed = 0
    /\ started = 0
    /\ reply = NoReply
    /\ read_pc = "idle"
    /\ reads = 0

ReadNext ==
    \/ ReadResponseBegin
    \/ ReadLine

SpecRead == ReadInit /\ [][ReadNext]_vars

\* A Potential made Present (Potential::present, 18-20) with the first item; the
\* owner's calls and the Lease's holder interleave.
PotentialInit ==
    /\ NoEngine
    /\ PooledIdle
    /\ EhloIdle
    /\ AddressIdle
    /\ EnvelopeIdle
    /\ StubIdle
    /\ ReadIdle
    /\ potential = Present(1)
    /\ lease = NoLease
    /\ channel = NoChannel
    /\ owner = "idle"
    /\ yielded = NoCall

PotentialNext ==
    \/ AsMutCall
    \/ TakeCall
    \/ LeaseCall
    \/ MapPresent
    \/ Receive
    \/ ReplaceOk
    \/ ReplaceErr
    \/ LeaseDrop

SpecPotential == PotentialInit /\ [][PotentialNext]_vars

\* SmtpTransport::new (65-72) for every security setting, with and without
\* credentials: the new InnerClient is Present in the Potential.
PooledInit ==
    /\ NoEngine
    /\ EhloIdle
    /\ AddressIdle
    /\ EnvelopeIdle
    /\ StubIdle
    /\ ReadIdle
    /\ potential = Present(1)
    /\ lease = NoLease
    /\ channel = NoChannel
    /\ owner = "idle"
    /\ yielded = NoCall
    /\ transport \in [panic : {FALSE}, server_info : {NoInfo},
                      client_info : [security : {"None", "Opportunistic", "Required", "Wrapper"},
                                     credentials : BOOLEAN]]
    /\ inner = [stream |-> "none"]
    /\ task = NoTask
    /\ network = <<>>
    /\ outcome = NoOutcome
    /\ calls = 0
    /\ smtp_stream = NoSmtpStream
    /\ poll = NoPoll
    /\ accepts = <<>>

PooledNext ==
    \/ Connect
    \/ ConnectLease
    \/ ConnectWithStream
    \/ ConnectGreeting
    \/ Ehlo
    \/ TryTlsCommand
    \/ UpgradeTlsStream
    \/ TryLogin
    \/ Close
    \/ CloseQuit

SpecPooled == PooledInit /\ [][PooledNext]_vars

\* The executor goes on polling the future of the function that runs: every
\* step of it that can be taken is taken.
PooledStep ==
    \/ ConnectLease
    \/ ConnectWithStream
    \/ ConnectGreeting
    \/ Ehlo
    \/ TryTlsCommand
    \/ UpgradeTlsStream
    \/ TryLogin
    \/ CloseQuit

SpecPooledFair == SpecPooled /\ WF_vars(PooledStep)

\* The transport after a connect() that returned Ok: security None, no
\* credentials, a Tcp stream; the client was leased once and came back through
\* the channel.
Connected ==
    /\ potential = Eventual
    /\ lease = NoLease
    /\ channel = [state |-> "sent", item |-> 1]
    /\ owner = "idle"
    /\ yielded = NoCall
    /\ transport = [panic |-> FALSE, server_info |-> SomeInfo({}),
                    client_info |-> [security |-> "None", credentials |-> FALSE]]
    /\ inner = [stream |-> "Tcp"]
    /\ task = NoTask
    /\ network = <<Written("EHLO", "command", 0, TRUE)>>
    /\ outcome = [fn |-> "connect", ok |-> TRUE, err |-> NoErr]
    /\ calls = 1
    /\ smtp_stream = NoSmtpStream
    /\ poll = NoPoll
    /\ accepts = <<>>

\* Messages are sent over a connected transport with send_stream and the
\* SmtpStream it returns.
MailInit ==
    /\ NoEngine
    /\ EhloIdle
    /\ AddressIdle
    /\ EnvelopeIdle
    /\ StubIdle
    /\ ReadIdle
    /\ Connected

MailNext ==
    \/ SendStream
    \/ SendStreamClient
    \/ SendStreamCommand
    \/ CloseQuit
    \/ PollCall
    \/ PollWriteLoop
    \/ PollFlush
    \/ PollCloseLoop
    \/ StreamDrop

SpecMail == MailInit /\ [][MailNext]_vars

\* The transport after a send_stream() that returned the SmtpStream: MAIL,
\* RCPT and DATA were answered positively and the stream holds the Lease.
Streaming ==
    /\ potential = Eventual
    /\ lease = LeaseNew(1)
    /\ channel = [state |-> "open", item |-> 0]
    /\ owner = "idle"
    /\ yielded = NoCall
    /\ transport = [panic |-> FALSE, server_info |-> SomeInfo({}),
                    client_info |-> [security |-> "None", credentials |-> FALSE]]
    /\ inner = [stream |-> "Tcp"]
    /\ task = NoTask
    /\ network = <<Written("EHLO", "command", 0, TRUE), Written("MAIL", "command", 0, TRUE),
                   Written("RCPT", "command", 0, TRUE), Written("DATA", "command", 0, TRUE)>>
    /\ outcome = [fn |-> "send_stream", ok |-> TRUE, err |-> NoErr]
    /\ calls = 2
    /\ smtp_stream = SmtpStreamNew
    /\ poll = NoPoll
    /\ accepts = <<>>

\* One SmtpStream is written, flushed, closed and dropped by its user.
SmtpStreamInit ==
    /\ NoEngine
    /\ EhloIdle
    /\ AddressIdle
    /\ EnvelopeIdle
    /\ StubIdle
    /\ ReadIdle
    /\ Streaming

\* The iterations of the loops of the poll functions.
PollLoop ==
    \/ PollWriteLoop
    \/ PollFlush
    \/ PollCloseLoop

SmtpStreamNext ==
    \/ PollCall
    \/ PollWriteLoop
    \/ PollFlush
    \/ PollCloseLoop
    \/ StreamDrop

SpecSmtpStream == SmtpStreamInit /\ [][SmtpStreamNext]_vars

\* A poll function is synchronous code: once called it runs on.
SpecSmtpStreamFair == SpecSmtpStream /\ WF_vars(PollLoop)

\* The codec of the pooled transport's stream on every body of LegacyBodies,
\* written in any number of buffers and closed.
LegacyCodecInit ==
    /\ body \in LegacyBodies
    /\ pos = 0
    /\ codec = ClientCodecNew
    /\ out = <<>>
    /\ cuts = {}
    /\ wire = <<>>
    /\ mstate = "idle"
    /\ server_info = {}
    /\ client_info = [pipelining |-> FALSE, smtp_utf8 |-> FALSE]
    /\ sent = <<>>
    /\ nread = 0
    /\ op = "none"
    /\ pc = "idle"
    /\ to = 0
    /\ step = 0
    /\ sent_commands = 0
    /\ challenges = 0
    /\ response = 0
    /\ result = NoResult
    /\ pipelined = FALSE
    /\ ops = 0
    /\ base = 0
    /\ nread0 = 0
    /\ failed = FALSE
    /\ panic = FALSE
    /\ stream = "open"
    /\ has_info = TRUE
    /\ pending = NoResult
    /\ timed_out = 0
    /\ LibraryInit
    /\ accepted_mechanisms = <<>>
    /\ mail_options = {}
    /\ ehlo_response = NoEhlo
    /\ engine = "held"

LegacyCodecNext ==
    \/ StreamEncode
    \/ StreamFinalDot

SpecLegacyCodec == LegacyCodecInit /\ [][LegacyCodecNext]_vars

(***************************************************************************)
(* Properties of the codec and the data phase                              *)
(***************************************************************************)

\* Positions of s at which the sequence pat starts.
Occurrences(s, pat) ==
    {i \in 1..Len(s) : /\ i + Len(pat) - 1 <= Len(s)
                       /\ SubSeq(s, i, i + Len(pat) - 1) = pat}

\* RFC 5321 transparency as the specification words it: the body byte for byte,
\* with one more '.' after every CR LF '.' of the body.
RECURSIVE Stuffed(_, _)
Stuffed(b, i) ==
    IF i > Len(b) THEN <<>>
    ELSE LET dot == /\ i >= 3
                    /\ b[i] = DOT
                    /\ b[i - 2] = CR
                    /\ b[i - 1] = LF
         IN  (IF dot THEN <<DOT, DOT>> ELSE <<b[i]>>) \o Stuffed(b, i + 1)

\* The receiver's decoding: remove one '.' after each CR LF.  removed is TRUE
\* when the previous byte was a removed dot.
RECURSIVE Unstuffed(_, _, _)
Unstuffed(o, i, removed) ==
    IF i > Len(o) THEN <<>>
    ELSE LET drop == /\ ~removed
                     /\ i >= 3
                     /\ o[i] = DOT
                     /\ o[i - 2] = CR
                     /\ o[i - 1] = LF
         IN  IF drop THEN Unstuffed(o, i + 1, TRUE)
             ELSE <<o[i]>> \o Unstuffed(o, i + 1, FALSE)

\* The bytes of the data phase without the trailing b"\r\n.\r\n".
WireBody == SubSeq(wire, 1, Len(wire) - Len(Terminator))

\* C3: the bytes SmtpStream::message writes for a body (the empty body included)
\* contain CR LF '.' CR LF exactly once, as their last five bytes.
C3_TerminatorOnlyAtEnd ==
    mstate = "sent" =>
        Occurrences(wire, Terminator) = {Len(wire) - Len(Terminator) + 1}

\* C4: for a non-empty body the encoder writes the body with every CR LF '.'
\* turned into CR LF '.' '.' and nothing else changed, and removing one '.'
\* after each CR LF of the output gives the body back.
C4_EncodeTransparent ==
    (mstate = "sent" /\ Len(body) > 0) =>
        /\ WireBody = Stuffed(body, 1)
        /\ Unstuffed(WireBody, 1, FALSE) = body

\* C5: a body whose first byte is '.' is written with that dot doubled.
C5_LeadingDotStuffed ==
    (mstate = "sent" /\ Len(body) > 0 /\ body[1] = DOT) =>
        /\ Len(wire) >= 2
        /\ wire[1] = DOT
        /\ wire[2] = DOT

\* C10: whatever the split of the body into non-empty chunks given to successive
\* encode calls on one codec, the bytes written so far and the codec's state are
\* those of one encode call on the bytes passed so far.
C10_ChunkingInvariance ==
    pos > 0 =>
        /\ out = encode(ClientCodecNew, SubSeq(body, 1, pos)).buf
        /\ codec = encode(ClientCodecNew, SubSeq(body, 1, pos)).escape_count

\* C10 witness: the body was passed in several calls, one call ended with CR LF,
\* the next began with '.', and that dot was doubled in the output.
C10_Witness ==
    /\ pos = Len(body)
    /\ \E p \in cuts :
         /\ p >= 2
         /\ body[p - 1] = CR
         /\ body[p] = LF
         /\ body[p + 1] = DOT
         /\ \E j \in 1..(Len(out) - 3) : SubSeq(out, j, j + 3) = <<CR, LF, DOT, DOT>>

\* s ends with the bytes pat.
EndsWith(s, pat) ==
    /\ Len(s) >= Len(pat)
    /\ SubSeq(s, Len(s) - Len(pat) + 1, Len(s)) = pat

\* C11: after the last body byte the data phase writes CR LF '.' CR LF when the
\* body does not end a line, LF '.' CR LF when it ends with CR and '.' CR LF when
\* it ends with CR LF: the terminator is preceded by exactly one CR LF and no
\* empty line is appended to a body that already ends with CR LF.
C11_EndOfBody ==
    (mstate = "sent" /\ Len(body) > 0) =>
        /\ EndsWith(wire, Terminator)
        /\ EndsWith(body, <<CR, LF>>) => ~EndsWith(wire, <<CR, LF>> \o Terminator)
        /\ EndsWith(body, <<CR>>) => ~EndsWith(wire, <<CR>> \o Terminator)


(***************************************************************************)
(* Properties of the dialogue                                              *)
(***************************************************************************)

\* The i-th command of a send with n recipients: MAIL, RCPT 1..n, DATA, the body.
Transaction(i, n) ==
    CASE i = 1 -> MailCommand(mail_options)
      [] i >= 2 /\ i <= n + 1 -> RcptCommand(i - 1, {})
      [] i = n + 2 -> Cmd("DATA", 0)
      [] OTHER -> Cmd("BODY", 0)

\* C1: a pipelined send that returns has read all the N+2 replies of its window:
\* none is left in the stream for the next command.
C1_WindowDrained ==
    (op = "send" /\ pipelined /\ pc = "idle") =>
        /\ nread - nread0 >= to + 2
        /\ nread >= base + to + 2

\* C2: an auth exchange of ten 334 replies followed by a positive reply that is
\* not 334 returns Ok with that reply; "Unexpected number of challenges" is
\* returned only when the eleventh reply is again 334.
C2_TenChallengesAllowed ==
    (op = "auth" /\ pc = "idle") =>
        /\ (/\ nread - nread0 = MaxChallenges + 1
            /\ IsPositive(response)
            /\ ~HasCode(response, 334))
              => result = [kind |-> "Ok", code |-> response]
        /\ result.kind = "ResponseParsing"
              => (nread - nread0 = MaxChallenges + 1 /\ HasCode(response, 334))

\* C7: in a pipelined send nothing is read before MAIL, the RCPTs in envelope
\* order and DATA are all written; the replies read are those of these commands,
\* the i-th read answering the i-th written; the body starts after N+2 of them.
C7_PipelinedWindow ==
    (op = "send" /\ pipelined) =>
        /\ nread > nread0 =>
             /\ Len(sent) >= base + to + 2
             /\ \A i \in 1..(to + 2) : sent[base + i] = Transaction(i, to)
             /\ nread0 = base
        /\ Len(sent) > base + to + 2 =>
             /\ sent[base + to + 3] = Cmd("BODY", 0)
             /\ nread >= nread0 + to + 2

\* C8: without pipelining send writes MAIL, the RCPTs in envelope order, DATA and
\* the body, each only when every reply to the commands before it was read and
\* the last one was positive; a non-positive reply ends send with that error.
C8_SequentialSend ==
    [][(op' = "send" /\ ~pipelined') =>
         /\ Len(sent') > Len(sent) =>
              /\ nread = Len(sent)
              /\ sent'[Len(sent')] = Transaction(Len(sent') - base, to)
              /\ Len(sent) > base => IsPositive(response)
         /\ (nread' > nread /\ ~IsPositive(response')) =>
              /\ pc' = "idle"
              /\ result' = [kind |-> ErrorFromResponse(response'), code |-> response']
      ]_vars

\* C8 witness: a send without pipelining to two recipients ended by the rejection
\* of the second recipient: MAIL, RCPT, RCPT were written and DATA never was.
C8_Witness ==
    /\ op = "send" /\ ~pipelined /\ pc = "idle"
    /\ to = 2
    /\ result.kind = "Permanent"
    /\ Len(sent) = base + 3
    /\ sent[Len(sent)] = RcptCommand(2, {})

\* C9: when send has written the body, the replies to MAIL, every RCPT and DATA
\* were read (and positive); it then reads one more reply and returns it.
C9_BodyAfterData ==
    (op = "send" /\ Len(sent) > base + to + 2) =>
        /\ nread >= Len(sent) - 1
        /\ pc = "idle" =>
             /\ nread = Len(sent)
             /\ result = ReadResponse(response)

\* C6: once an operation has failed and the transport is panicked, no later
\* operation other than close writes anything to the stream, and each of them
\* returns a Client error.
C6_PanickedRefuses ==
    [][(panic /\ failed /\ op' # "close") =>
         /\ Len(sent') = Len(sent)
         /\ (pc # "idle" /\ pc' = "idle") => result'.kind = "Client"
      ]_vars

\* C12: an auth exchange (whose challenges the mechanism could answer) has written
\* the initial AUTH command and one response line per 334 reply read, nothing
\* else; it ends at the first reply that is not 334 and returns that reply: Ok
\* when positive, Transient / Permanent otherwise.
C12_AuthExchange ==
    (op = "auth" /\ pc = "idle" /\ result.kind # "Challenge") =>
        /\ sent[base + 1].cmd = "AUTH"
        /\ \A i \in (base + 2)..Len(sent) : sent[i].cmd = "RESPONSE"
        /\ ~HasCode(response, 334)
        /\ Len(sent) - base = nread - nread0
        /\ result = ReadResponse(response)

\* C13: try_login runs the AUTH exchange for exactly one mechanism, the first
\* element of accepted_mechanisms that server_info advertises: the only AUTH
\* command it writes names that mechanism, and no element before it in the list
\* is advertised; when no element is advertised it writes nothing and returns Ok.
C13_FirstAdvertisedMechanism ==
    op = "try_login" =>
        LET advertised == {i \in 1..Len(accepted_mechanisms) :
                              Authentication(accepted_mechanisms[i]) \in server_info}
            written == {i \in (base + 1)..Len(sent) : sent[i].cmd = "AUTH"}
        IN  IF advertised = {}
            THEN /\ Len(sent) = base
                 /\ pc = "idle"
                 /\ result.kind = "Ok"
            ELSE /\ written = {base + 1}
                 /\ \E i \in advertised :
                      /\ sent[base + 1].arg = accepted_mechanisms[i]
                      /\ \A j \in advertised : i <= j

\* C13 witness: the caller's first choice is not advertised, its second is, and
\* the exchange for the second has ended in Ok after a challenge.
C13_Witness ==
    /\ op = "try_login" /\ pc = "idle"
    /\ Len(accepted_mechanisms) >= 2
    /\ Authentication(accepted_mechanisms[1]) \notin server_info
    /\ Authentication(accepted_mechanisms[2]) \in server_info
    /\ sent[base + 1] = Cmd("AUTH", accepted_mechanisms[2])
    /\ Len(sent) > base + 1
    /\ result.kind = "Ok"

\* C14: starttls on a transport whose server_info lacks STARTTLS has returned a
\* Client error and has written nothing to the stream.
C14_StarttlsUnsupported ==
    (op = "starttls" /\ ~supports_feature("STARTTLS")) =>
        /\ pc = "idle"
        /\ result.kind = "Client"
        /\ Len(sent) = base
        /\ nread = nread0

\* C14 witness: after a send, starttls was refused for lack of the extension.
C14_Witness ==
    /\ op = "starttls" /\ ~supports_feature("STARTTLS")
    /\ Len(sent) > 0
    /\ result.kind = "Client"

\* C15: starttls writes the STARTTLS command and nothing else, reads one reply,
\* and the raw stream is handed to the caller exactly when starttls returns Ok,
\* which it does only on a positive reply; on an error the stream is not handed
\* back; no command follows a STARTTLS command on the stream.
C15_StarttlsHandsOver ==
    /\ \A i \in 1..Len(sent) : sent[i].cmd = "STARTTLS" => i = Len(sent)
    /\ engine = "returned" <=> (op = "starttls" /\ pc = "idle" /\ result.kind = "Ok")
    /\ (op = "starttls" /\ supports_feature("STARTTLS")) =>
         /\ Len(sent) = base + 1
         /\ sent[base + 1] = Cmd("STARTTLS", 0)
         /\ pc = "idle" =>
              /\ nread = nread0 + 1
              /\ result = ReadResponse(response)
              /\ engine = (IF IsPositive(response) THEN "returned" ELSE "dropped")

\* C15 witness: after a send on the same transport, STARTTLS was answered
\* positively and the stream was handed to the caller.
C15_Witness ==
    /\ op = "starttls" /\ pc = "idle"
    /\ Len(sent) > 1
    /\ sent[Len(sent)] = Cmd("STARTTLS", 0)
    /\ result.kind = "Ok"
    /\ engine = "returned"

\* C16: the first command written on a stream is EHLO with the configured client
\* id; with expect_greeting it is written only after one reply was read and was
\* positive, and a non-positive greeting ends open with that error and nothing
\* written; without expect_greeting it is written before any read; open gives a
\* transport only when the reply read for EHLO is positive and parses, and
\* server_info is then what that reply advertised.
C16_Open ==
    [][/\ (Len(sent) = 0 /\ Len(sent') > 0) =>
            /\ sent' = <<Cmd("EHLO", ClientIdDisplay(client_info.hello_name))>>
            /\ IF client_info.expect_greeting
               THEN nread = nread0 + 1 /\ IsPositive(response)
               ELSE nread = nread0
       /\ \A i \in 1..Len(sent') : sent'[i].cmd # "HELO"
       /\ (op = "open" /\ client_info.expect_greeting /\ nread = nread0
             /\ nread' > nread /\ ~IsPositive(response')) =>
            /\ pc' = "idle"
            /\ result' = [kind |-> ErrorFromResponse(response'), code |-> response']
            /\ Len(sent') = 0
            /\ engine' = "dropped"
       /\ (engine = "unopened" /\ engine' # "unopened") =>
            (engine' = "held" <=>
                /\ Len(sent) = 1
                /\ nread' = nread + 1
                /\ IsPositive(response')
                /\ ehlo_response'.named
                /\ server_info' = ehlo_response'.features
                /\ result'.kind = "Ok")
      ]_vars

\* C16 witness: open awaited the greeting, wrote EHLO with an address literal as
\* client id, and succeeded with a server_info that is not empty.
C16_Witness ==
    /\ op = "open" /\ pc = "idle"
    /\ client_info.expect_greeting
    /\ client_info.hello_name.tag = "Ipv4"
    /\ sent = <<Cmd("EHLO", "[127.0.0.1]")>>
    /\ nread = nread0 + 2
    /\ engine = "held"
    /\ server_info # {}

\* C17: once the reply to the EHLO sent after STARTTLS was read, the features the
\* transport treats as supported are those of that reply, none if that EHLO
\* failed; when connect returns Ok after a TLS upgrade server_info is exactly
\* what that reply advertised; a MAIL command written after the upgrade takes its
\* parameters from that reply only.
C17_ServerInfoAfterTls ==
    \A i \in 1..Len(sent) :
        (/\ sent[i].cmd = "STARTTLS"
         /\ Len(sent) > i
         /\ sent[i + 1].cmd = "EHLO"
         /\ nread >= i + 1
         /\ pc = "idle") =>
            LET second == IF FromResponse(ehlo_response).kind = "Ok"
                          THEN ehlo_response.features ELSE {}
            IN  /\ Features \subseteq second
                /\ (op = "connect" /\ result.kind = "Ok") =>
                       (has_info /\ server_info = second)
                /\ \A j \in (i + 2)..Len(sent) :
                       sent[j].cmd = "MAIL" =>
                           sent[j].parameters = MailOptions(second, client_info.smtp_utf8)

\* C18: every MAIL command written by send carries BODY=8BITMIME exactly when
\* server_info advertises 8BITMIME, SMTPUTF8 exactly when server_info advertises
\* SMTPUTF8 and the client enabled smtp_utf8, and no other parameter; RCPT
\* commands carry no parameter.
C18_MailParameters ==
    \A i \in 1..Len(sent) :
        /\ sent[i].cmd = "MAIL" =>
             /\ "BODY=8BITMIME" \in sent[i].parameters <=> supports_feature("8BITMIME")
             /\ "SMTPUTF8" \in sent[i].parameters <=>
                    (supports_feature("SMTPUTF8") /\ client_info.smtp_utf8)
             /\ sent[i].parameters \subseteq {"BODY=8BITMIME", "SMTPUTF8"}
        /\ sent[i].cmd = "RCPT" => sent[i].parameters = {}

\* C18 witness: the server advertises both extensions, the client did not enable
\* smtp_utf8, and a MAIL command was written with BODY=8BITMIME alone, followed by
\* a RCPT command.
C18_Witness ==
    /\ {"8BITMIME", "SMTPUTF8"} \subseteq server_info
    /\ ~client_info.smtp_utf8
    /\ Len(sent) >= 2
    /\ sent[1] = MailCommand({"BODY=8BITMIME"})
    /\ sent[2].cmd = "RCPT"

\* C19: a reply read by read_response gives Ok with that reply exactly when it is
\* positive (2xx or 3xx); a 4xx reply ends the operation with Transient carrying
\* the reply, a 5xx reply with Permanent carrying the reply, any other
\* non-positive reply with the Client error.
C19_ReadResponse ==
    [][nread' > nread =>
         /\ IsPositive(response') <=> (result' \in {NoResult, [kind |-> "Ok", code |-> response']})
         /\ Severity(response') = 4 =>
              (pc' = "idle" /\ result' = [kind |-> "Transient", code |-> response'])
         /\ Severity(response') = 5 =>
              (pc' = "idle" /\ result' = [kind |-> "Permanent", code |-> response'])
         /\ Severity(response') \notin {2, 3, 4, 5} =>
              (pc' = "idle" /\ result'.kind = "Client")
      ]_vars

\* C19 witness: MAIL, the RCPTs and DATA were answered positively, the final reply
\* of the send was 5xx and send returned Permanent with it.
C19_Witness ==
    /\ op = "send" /\ pc = "idle"
    /\ Len(sent) = base + to + 3
    /\ nread = Len(sent)
    /\ result = [kind |-> "Permanent", code |-> 550]

\* C20: quit writes QUIT and reads one reply; once it has returned nothing more is
\* written through the transport: QUIT stays the last command on the stream.
C20_QuitReleasesStream ==
    /\ (op = "quit" /\ pc = "idle") =>
         /\ Len(sent) = base + 1
         /\ sent[base + 1] = Cmd("QUIT", 0)
         /\ nread = nread0 + 1
    /\ \A i \in 1..Len(sent) : sent[i].cmd = "QUIT" => i = Len(sent)

(***************************************************************************)
(* Properties of deadlines                                                 *)
(***************************************************************************)

\* C21: an operation during which a deadline expired fails with the Timeout
\* error kind, and a send started on the transport afterwards writes no command.
C21_TimeoutFatal ==
    /\ (timed_out = ops /\ ops > 0 /\ pc = "idle") => result.kind = "Timeout"
    /\ (timed_out > 0 /\ timed_out < ops /\ op = "send_stream") => Len(sent) = base

(***************************************************************************)
(* Properties of ServerInfo::from_response                                 *)
(***************************************************************************)

\* str::to_uppercase on the tokens of Tokens.
to_uppercase(t) ==
    CASE t = "me" -> "ME"
      [] t = "starttls" -> "STARTTLS"
      [] t = "Pipelining" -> "PIPELINING"
      [] t = "auth" -> "AUTH"
      [] t = "plain" -> "PLAIN"
      [] OTHER -> t

\* The reply with the lines after the first written in upper case.
UpperCased(msg) ==
    [i \in 1..Len(msg) |->
        IF i = 1 THEN msg[i] ELSE [j \in 1..Len(msg[i]) |-> to_uppercase(msg[i][j])]]

\* C22: the keyword of a line is compared case-insensitively: a reply yields the
\* features its upper-case form yields.
C22_CaseInsensitive ==
    parsed.kind = "Ok" => parsed.features = from_response(UpperCased(message)).features

\* The features the claim gives a line: a recognised keyword, or AUTH with its
\* recognised mechanisms.
Recognised(split) ==
    IF split = <<>> THEN {}
    ELSE IF split[1] \in {"PIPELINING", "8BITMIME", "SMTPUTF8", "STARTTLS"} THEN {split[1]}
    ELSE IF split[1] = "AUTH"
         THEN {"AUTH " \o split[j] : j \in {k \in 2..Len(split) : split[k] \in Mechanisms}}
         ELSE {}

\* C23: the name is the first word of the first line; only the lines after the
\* first contribute features, exactly the recognised ones; parsing again gives
\* an equal result.
C23_FromResponse ==
    parsed # NoParse =>
        /\ parsed.kind = "Ok" <=> (Len(message) > 0 /\ Len(message[1]) > 0)
        /\ parsed.kind # "Ok" => parsed.kind = "ResponseParsing"
        /\ parsed.kind = "Ok" =>
              /\ parsed.name = message[1][1]
              /\ parsed.features = UNION {Recognised(message[i]) : i \in 2..Len(message)}
        /\ from_response(message) = parsed

(***************************************************************************)
(* Properties of EmailAddress and the envelope                             *)
(***************************************************************************)

\* The characters the claim forbids: CR, LF, '<', '>', space and other ASCII
\* whitespace, DEL and other control characters, non-ASCII characters.
Forbidden(c) ==
    \/ c \in {CR, LF, 60, 62, 32, 9, 12, 127}
    \/ c < 32
    \/ c > 127

\* C24: EmailAddress::new fails exactly for the strings that contain a forbidden
\* character, and a MAIL or RCPT command formatted with an accepted address
\* contains CR LF once, at its end (and no other CR or LF).
C24_AddressInjection ==
    /\ email_address # NoAddress =>
          /\ email_address.kind = "Err" <=> \E i \in 1..Len(address) : Forbidden(address[i])
          /\ email_address.kind = "Ok" => email_address.value = address
    /\ command # <<>> =>
          /\ Occurrences(command, CRLF) = {Len(command) - 1}
          /\ \A i \in 1..(Len(command) - 2) : command[i] \notin {CR, LF}

\* An accepted non-empty address was formatted into a RCPT command.
C24_Witness ==
    /\ email_address.kind = "Ok"
    /\ Len(address) = 2
    /\ command = RcptTo \o address \o Closing \o CRLF

\* C25: Envelope::new fails exactly for the empty recipient list and keeps the
\* recipients in their order; every DATA a send writes follows the MAIL of that
\* send and one RCPT per recipient, in order, at least one.
C25_EnvelopeRecipients ==
    /\ envelope # NoEnvelope =>
          /\ envelope.kind = "Err" <=> recipients = <<>>
          /\ envelope.kind = "Ok" => envelope.forward_path = recipients
    /\ \A j \in 1..Len(sent) :
          sent[j].cmd = "DATA" =>
              LET n == Len(recipients)
              IN  /\ n >= 1
                  /\ j >= n + 2
                  /\ sent[j - n - 1].cmd = "MAIL"
                  /\ \A k \in 1..n : sent[j - n - 1 + k] = RcptCommand(k, {})

\* A send without pipelining has written DATA after MAIL and two RCPTs.
C25_Witness ==
    /\ op = "send" /\ ~pipelined
    /\ Len(recipients) = 2
    /\ Len(sent) = base + 4
    /\ sent[Len(sent)].cmd = "DATA"

(***************************************************************************)
(* Properties of the stub transport                                        *)
(***************************************************************************)

\* C26: every send on a StubTransport, however many were performed before,
\* returns the response the transport was created with.
C26_StubAlwaysReturns ==
    (stub_sends > 0 /\ stub_pc = "idle") => stub_result = given

(***************************************************************************)
(* Properties of read_response                                             *)
(***************************************************************************)

\* The lines i+1 .. i+n of the stream are one complete reply: continuation
\* lines and a last line, all with the same code.
CompleteReply(i, n) ==
    /\ n >= 1
    /\ i + n <= Len(incoming)
    /\ incoming[i + n].kind = "last"
    /\ \A k \in (i + 1)..(i + n - 1) : incoming[k].kind = "cont"
    /\ \A k \in (i + 1)..(i + n) : incoming[k].code = incoming[i + 1].code

\* The stream ends after line i before a reply is complete: only continuation
\* lines of one code follow, and possibly a cut line.
EndsBefore(i) ==
    \A k \in (i + 1)..Len(incoming) :
        \/ incoming[k].kind = "cut"
        \/ incoming[k].kind = "cont" /\ incoming[k].code = incoming[i + 1].code

\* C27: read_response takes one line per iteration; when the stream holds a
\* complete reply it returns that reply, having consumed exactly its lines; when
\* the stream ends before the reply is complete it returns an Io error.
C27_ReadResponse ==
    [][/\ consumed' <= consumed + 1
       /\ (read_pc = "loop" /\ read_pc' = "idle") =>
            /\ (\E n \in 1..MaxIncoming : CompleteReply(started, n)) =>
                  /\ CompleteReply(started, consumed' - started)
                  /\ reply' = ReadResponse(incoming[consumed'].code)
            /\ EndsBefore(started) =>
                  /\ reply'.kind = "Io"
                  /\ consumed' = Len(incoming)
      ]_vars

\* A second read_response has returned the second reply of the stream, the first
\* having had a continuation line.
C27_Witness ==
    /\ reads = 2 /\ read_pc = "idle"
    /\ started = 2 /\ consumed = 3
    /\ CompleteReply(0, 2)
    /\ reply = [kind |-> "Permanent", code |-> 550]

(***************************************************************************)
(* Properties of close() on the pooled transport                           *)
(***************************************************************************)

\* C28: close() completes successfully when the reply to its QUIT is positive;
\* exactly then the stream is released, server_info cleared and panic reset.  A
\* close() that fails returns an error and leaves panic, server_info and the
\* stream as they were.
C28_CloseResets ==
    [][LET closed == pc = "close_reply" /\ nread' = nread + 1 /\ IsPositive(response')
       IN  /\ closed => (~panic' /\ ~has_info' /\ stream' = "none")
           /\ (panic /\ ~panic') => closed
           /\ (has_info /\ ~has_info') => closed
           /\ (stream = "open" /\ stream' = "none") => closed
           /\ (pc \in {"close", "close_reply"} /\ pc' = "idle" /\ ~closed) =>
                 /\ result'.kind \notin {"Ok", "none"}
                 /\ UNCHANGED <<panic, has_info, server_info, stream>>
      ]_vars

\* A transport left panicked with its stream open by a failed send, whose QUIT
\* was not answered positively, was then closed successfully.
C28_Witness ==
    /\ op = "close" /\ pc = "idle" /\ result.kind = "Ok"
    /\ ~panic /\ ~has_info /\ stream = "none"
    /\ Len(sent) >= 2
    /\ sent[Len(sent)].cmd = "QUIT"
    /\ \E i \in 1..(Len(sent) - 1) : sent[i].cmd = "QUIT"

(***************************************************************************)
(* Properties of the pooled transport's codec                              *)
(***************************************************************************)

\* C29: a '.' at the start of a line that follows an empty line is stuffed: a
\* body that contains CR LF CR LF '.' is written with every CR LF '.' turned
\* into CR LF '.' '.'.
C29_DotAfterEmptyLine ==
    (pos = Len(body) /\ Occurrences(body, <<CR, LF, CR, LF, DOT>>) # {}) =>
        out = Stuffed(body, 1)

\* C30: when a Lease obtained from Potential::lease() is dropped, its item is
\* sent back to the owner: the call of the owner that awaits it (as_mut, lease
\* or take) completes with that same item, and as_mut and lease leave the
\* Potential other than Gone; map_present never waits and returns None
\* while the item is leased.
C30_LeaseGivesBack ==
    [][ /\ (lease.state = "held" /\ lease'.state = "none")
             => channel' = [state |-> "sent", item |-> lease.item]
        /\ (owner # "idle" /\ owner' = "idle")
             => /\ channel.state = "sent"
                /\ yielded' = Some(owner, channel.item)
                /\ owner # "take" => potential'.state # "Gone"
        /\ (yielded' # yielded /\ yielded'.call = "map_present")
             => /\ owner' = "idle"
                /\ lease.state = "held" => ~yielded'.some
      ]_vars

\* C40: the item is at every moment in exactly one place, Present in the
\* Potential, inside the live Lease, or in the return channel, and leaves these
\* only when take() hands it to the owner; a lease() issued while a Lease is
\* outstanding completes only after that Lease was dropped.
C40_ItemInOnePlace ==
    [][ LET Places(p, l, c) ==
                (IF p.state = "Present" THEN 1 ELSE 0)
                    + (IF l.state = "held" THEN 1 ELSE 0)
                    + (IF c.state = "sent" THEN 1 ELSE 0)
        IN  /\ Places(potential', lease', channel') <= 1
            /\ (Places(potential, lease, channel) = 1
                    /\ Places(potential', lease', channel') = 0)
                   => (yielded'.call = "take" /\ yielded'.some)
            /\ (owner = "lease" /\ owner' = "idle" /\ yielded'.some)
                   => lease.state = "none"
      ]_vars

(***************************************************************************)
(* Properties of the pooled transport with its Potential                   *)
(***************************************************************************)

\* C31: connect() always eventually returns, Ok or Err, when the server
\* answers every command; in particular the close() that try_smtp! calls
\* after a rejected STARTTLS or AUTH completes and does not wait for the
\* client the same function holds leased.
C31_ConnectReturns ==
    (task.fn = "connect") ~> (task.fn = "none")

\* C33: with ClientSecurity::Required, every AUTH command connect() writes goes
\* over an encrypted stream, and when connect() has returned Ok the stream is
\* encrypted, whatever the variant of NetworkStream; and when the server did
\* not advertise STARTTLS, connect() fails and has written no AUTH.
C33_RequiredIsEncrypted ==
    transport.client_info.security = "Required"
        => /\ \A i \in 1..Len(network) :
                  network[i].cmd = "AUTH" => network[i].encrypted
           /\ (task.fn = "none" /\ outcome.fn = "connect" /\ outcome.ok)
                  => is_encrypted(inner.stream)

\* C38: when connect() has returned an error, the transport is left without an
\* open stream, so that a later connect() starts from a fresh connection.
C38_FailedConnectLeavesNoStream ==
    (task.fn = "none" /\ outcome.fn = "connect" /\ ~outcome.ok)
        => inner.stream = "none"

\* C37: when a command failed and try_smtp! closes the connection, the error
\* the caller gets is the error of the failed command, whatever the reply to
\* the QUIT that close() sends.
C37_FailedCommandsError ==
    [][ (task.pc = "close" /\ task.pending # NoErr /\ task'.fn = "none")
            => outcome'.err = task.pending ]_vars

\* C32: whenever the transport writes a MAIL command on a connection, every
\* earlier DATA phase on that connection was completed with the end of the
\* body and its final reply read; dropping an SmtpStream without closing it
\* never leaves the connection available for a next transaction in the middle
\* of a body.
C32_MailAfterCompleteBody ==
    [][ LET \* a DATA command was accepted and no poll_close has written the
            \* end of the body and read the final reply since
            MidBody(net) ==
                \E j \in 1..Len(net) :
                    /\ net[j].cmd = "DATA" /\ net[j].positive
                    /\ \A k \in (j + 1)..Len(net) :
                           ~(net[k].cmd = "END" /\ net[k].by = "poll_close")
        IN  (Len(network') = Len(network) + 1 /\ network'[Len(network')].cmd = "MAIL")
                => ~MidBody(network)
      ]_vars

(***************************************************************************)
(* Properties of the SmtpStream                                            *)
(***************************************************************************)

\* C34: every call of poll_write, poll_flush or poll_close returns, Ready or
\* Pending, after finitely many iterations of its loop, in every state of the
\* stream, a poll_write after a successful close included.
C34_PollReturns ==
    (poll.fn # "none") ~> (poll.fn = "none")

\* C35: the end-of-body sequence is written only by closing the SmtpStream,
\* and once per message: no poll_write writes it, whatever its buffer, and a
\* repeated poll_close does not write it again.
C35_EndOnlyByClose ==
    /\ \A i \in 1..Len(network) :
           network[i].cmd = "END" => network[i].by = "poll_close"
    /\ Cardinality({i \in 1..Len(network) : network[i].cmd = "END"}) <= 1

\* C39: after poll_write or poll_flush reported an I/O error of the encoding,
\* every later poll_write, poll_flush and poll_close on that SmtpStream returns
\* an error and result() returns Err: the future that has completed is never
\* polled again.
C39_ErrorIsSticky ==
    [][ ( /\ smtp_stream.state = "Encoding" /\ smtp_stream.fut = "completed"
          /\ poll' # poll /\ poll'.fn = "none" /\ poll'.last # "drop" )
            => poll'.value \in {"Err", "Client"} ]_vars

\* C36: every buffer that poll_write accepted is encoded onto the wire, in the
\* order of acceptance, before the end of the body that poll_close writes, and
\* the final reply is read only after that end was written: a stream is Done
\* with a reply only when the end is on the wire.  result() gives the reply
\* only if the stream reached Done, and the Client error otherwise.
C36_AcceptedThenEnd ==
    [][ LET ByPollWrite(e) == e.by = "poll_write"
            onWire(net) == SelectSeq(net, ByPollWrite)
            Closed(net) == net # <<>> /\ net[Len(net)].cmd = "END"
                                      /\ net[Len(net)].by = "poll_close"
            InOrder(net, acc) ==
                /\ Len(onWire(net)) <= Len(acc)
                /\ \A i \in 1..Len(onWire(net)) : onWire(net)[i].n = acc[i]
                /\ \A k \in 1..Len(net) :
                       (net[k].cmd = "END" /\ net[k].by = "poll_close")
                           => /\ k = Len(net)
                              /\ Len(onWire(net)) = Len(acc)
        IN  /\ smtp_stream'.state # "none" => InOrder(network', accepts')
            /\ (smtp_stream'.state = "Done" /\ smtp_stream'.ok)
                   => (Closed(network') /\ network'[Len(network')].positive)
            /\ (smtp_stream.state # "none" /\ smtp_stream'.state = "none"
                     /\ poll'.last = "result")
                   => /\ smtp_stream.state # "Done" => poll'.value = "Client"
                      /\ poll'.value = "Ok"
                           => (smtp_stream.state = "Done" /\ Closed(network))
                      /\ poll'.value = "Err" => smtp_stream.state = "Done"
      ]_vars

\* A message of two buffers was written and closed, and result() gave the
\* server's positive reply.
C36_Witness ==
    /\ poll.last = "result" /\ poll.value = "Ok"
    /\ Len(network) >= 3
    /\ network[Len(network)].cmd = "END" /\ network[Len(network)].by = "poll_close"
    /\ network[Len(network) - 1].cmd = "BODY" /\ network[Len(network) - 1].n = 2
    /\ network[Len(network) - 2].cmd = "BODY" /\ network[Len(network) - 2].n = 1

====
